---- MODULE Spec2Model ----
(***************************************************************************)
(* Verification model of simple-jira-agents: the blast-radius analyzer,    *)
(* the layered admin validator, webhook authentication, the hygiene engine *)
(* and the stale-ticket rule.                                              *)
(*                                                                         *)
(* Encoding of Python values                                               *)
(*   ids     an id read from a Jira payload is an integer: 0 is None (or a *)
(*           missing key), n > 0 is the string of the decimal digits of n, *)
(*           n < 0 is the int -n.  Str models str(): it maps the int to    *)
(*           its decimal string and leaves a string alone.                 *)
(*   text    a lower-cased text is a sequence of word tokens; \bword\b     *)
(*           matches when the token occurs in the sequence.                *)
(***************************************************************************)
EXTENDS Integers, Sequences, FiniteSets, TLC

VARIABLES
    brContexts,     \* analyze_blast_radius: the field_contexts argument
    brTarget,       \* analyze_blast_radius: the target_project_id argument
    brOut,          \* analyze_blast_radius: the returned dict (NoResult before the call)
    avPc,           \* process_admin_request: the Jira/LLM call the handler is about to make
    avReq,          \* process_admin_request: the issue text and the extracted field name
    avLoc,          \* process_admin_request: the handler's local variables
    avCalls,        \* process_admin_request: the calls made on the Jira client and the LLM, in order
    avResult,       \* process_admin_request: the returned dict (NoResult while running)
    whSecret,       \* app/auth.py: the configured webhook secret
    whReq,          \* app/main.py: the POST request being served
    whResp,         \* app/main.py: the response, with what the route did (NoResult before)
    hyEngine,       \* HygieneEngine: the enable flags and what each rule's execute does
    hyPayload,      \* HygieneEngine.process: the payload argument
    hyOut,          \* HygieneEngine.process: the report, with the rule calls made (NoResult before)
    stRule,         \* StaleTicketRule: the constructor arguments
    stJira,         \* StaleTicketRule: the search backend behind self.jira
    stOut,          \* StaleTicketRule.execute: the result, with the backend calls made (NoResult before)
    wvRule,         \* WorkflowValidatorRule: the constructor arguments
    wvJira,         \* WorkflowValidatorRule: the issues behind self.jira
    wvOut,          \* WorkflowValidatorRule.execute: the result, with the backend calls made
    olPrompt,       \* call_ollama: the keywords the lower-cased prompt contains
    olReply,        \* call_ollama: what requests.post does and returns
    olOut,          \* call_ollama: the returned value (NoResult before)
    l1Ticket,       \* L1 process_ticket: the issue_data argument
    l1Out,          \* L1 process_ticket: the returned dict, with the calls made (NoResult before)
    arComments,     \* architect process_ticket: the comments stored on the issue, oldest first
    arRuns,         \* architect process_ticket: the number of invocations made so far
    arLast,         \* architect process_ticket: the last invocation, its result and calls
    hhPayload,      \* handle_hygiene: the payload argument
    hhDefault,      \* handle_hygiene: cfg.HYGIENE_DEFAULT_PROJECTS
    hhOut,          \* handle_hygiene: the engine that was run and its report (NoResult before)
    srRule,         \* should_run: the rule (class and enabled flag)
    srPayload,      \* should_run: the data argument
    srOut,          \* should_run: the returned value (NoResult before the call)
    ruRule,         \* a hygiene rule's configuration (stale, missing fields or workflow)
    ruJira,         \* the rule's Jira client: None (dry run) or the responses of a client
    ruOut,          \* execute: the returned dict, the calls made and the rule afterwards
    mlPc,           \* the project-mapping pagination loop: "loop" or "done"
    mlLoc,          \* the project-mapping pagination loop: its local variables
    alLabels,       \* JiraAPI.add_label: the issue's labels in Jira
    alCalls,        \* JiraAPI.add_label: the calls made so far and their requests
    alOut,          \* JiraAPI.add_label: the last returned dict (NoResult before)
    caPc,           \* concurrent jira-architect requests: each request's next step
    caSeen,         \* concurrent jira-architect requests: the comments each request read
    caComments      \* concurrent jira-architect requests: the issue's comments in Jira

brVars == <<brContexts, brTarget, brOut>>
avVars == <<avPc, avReq, avLoc, avCalls, avResult>>
whVars == <<whSecret, whReq, whResp>>
hyVars == <<hyEngine, hyPayload, hyOut>>
stVars == <<stRule, stJira, stOut>>
wvVars == <<wvRule, wvJira, wvOut>>
olVars == <<olPrompt, olReply, olOut>>
l1Vars == <<l1Ticket, l1Out>>
arVars == <<arComments, arRuns, arLast>>
hhVars == <<hhPayload, hhDefault, hhOut>>
srVars == <<srRule, srPayload, srOut>>
ruVars == <<ruRule, ruJira, ruOut>>
mlVars == <<mlPc, mlLoc>>
alVars == <<alLabels, alCalls, alOut>>
caVars == <<caPc, caSeen, caComments>>

vars == <<brContexts, brTarget, brOut, avPc, avReq, avLoc, avCalls, avResult,
          whSecret, whReq, whResp, hyEngine, hyPayload, hyOut, stRule, stJira, stOut,
          wvRule, wvJira, wvOut, olPrompt, olReply, olOut, l1Ticket, l1Out,
          arComments, arRuns, arLast, hhPayload, hhDefault, hhOut,
          srRule, srPayload, srOut, ruRule, ruJira, ruOut, mlPc, mlLoc,
          alLabels, alCalls, alOut, caPc, caSeen, caComments>>

NoneId == 0
NoResult == [kind |-> "none"]

Range(s) == {s[i] : i \in 1..Len(s)}

Min2(a, b) == IF a < b THEN a ELSE b
Max2(a, b) == IF a > b THEN a ELSE b

(***************************************************************************)
(* tools/blast_radius_engine.py                                            *)
(***************************************************************************)

\* str(x) on an id
Str(x) == IF x < 0 THEN -x ELSE x

RECURSIVE StrNotNone(_)
\* [str(x) for x in project_ids if x is not None]
StrNotNone(s) ==
    IF s = <<>> THEN <<>>
    ELSE IF Head(s) = NoneId THEN StrNotNone(Tail(s))
         ELSE <<Str(Head(s))>> \o StrNotNone(Tail(s))

\* _ctx_project_ids: a context without a projectIds/projects list yields []
_ctx_project_ids(ctx) == IF ctx.known THEN StrNotNone(ctx.pids) ELSE <<>>

\* _is_global_ctx: explicit boolean flag first, else an empty project list
_is_global_ctx(ctx) ==
    IF ctx.flag = "true" THEN TRUE
    ELSE IF ctx.flag = "false" THEN FALSE
    ELSE Len(_ctx_project_ids(ctx)) = 0

\* the sort key of line 156: len(pids) or 10**9
SortKey(ctx) ==
    IF Len(_ctx_project_ids(ctx)) = 0 THEN 10^9 ELSE Len(_ctx_project_ids(ctx))

\* does x go before the element y that is already in the sorted prefix
SortBefore(x, y) == SortKey(x) < SortKey(y)

RECURSIVE InsertSorted(_, _)
\* insert x behind every element it is not strictly smaller than (stable)
InsertSorted(x, s) ==
    IF s = <<>> THEN <<x>>
    ELSE IF SortBefore(x, s[Len(s)]) THEN Append(InsertSorted(x, SubSeq(s, 1, Len(s) - 1)), s[Len(s)])
         ELSE Append(s, x)

RECURSIVE SortedByKey(_)
\* sorted(applicable, key=...): Python's sort is stable
SortedByKey(s) ==
    IF s = <<>> THEN <<>>
    ELSE InsertSorted(s[Len(s)], SortedByKey(SubSeq(s, 1, Len(s) - 1)))

\* contexts whose non-empty project list contains the target project
ApplicableCtxs(contexts, tpid) ==
    SelectSeq(contexts, LAMBDA c : Len(_ctx_project_ids(c)) > 0 /\ tpid \in Range(_ctx_project_ids(c)))

\* line 132: any context with a projectIds/projects list, empty or not
any_known_project_map(contexts) ==
    \E i \in 1..Len(contexts) : contexts[i].known

any_nonempty_project_map(contexts) ==
    \E i \in 1..Len(contexts) : Len(_ctx_project_ids(contexts[i])) > 0

GlobalCtxs(contexts) == SelectSeq(contexts, _is_global_ctx)

BrDict(sel, glob, cnt, risk, reason) ==
    [kind |-> "dict", selected_context_id |-> sel, is_global |-> glob,
     project_count |-> cnt, risk_level |-> risk, reason |-> reason]

\* the risk rules counting list entries instead of distinct projects
Classify_CountsEntries(selected) ==
    LET selected_id   == Str(selected.id)
        selected_pids == _ctx_project_ids(selected)
        is_global     == _is_global_ctx(selected)
        project_count == Len(selected_pids)
    IN  IF is_global THEN BrDict(selected_id, TRUE, 0, "GLOBAL", "global")
        ELSE IF project_count <= 1 THEN BrDict(selected_id, FALSE, project_count, "LOW", "single")
        ELSE IF project_count = 2 THEN BrDict(selected_id, FALSE, project_count, "MEDIUM", "shared2")
        ELSE BrDict(selected_id, FALSE, project_count, "HIGH", "sharedN")

\* risk rules for a selected context (lines 169-198)
Classify(selected) ==
    LET selected_id   == Str(selected.id)
        selected_pids == _ctx_project_ids(selected)
        is_global     == _is_global_ctx(selected)
        project_count == Cardinality(Range(selected_pids))
    IN  IF is_global THEN BrDict(selected_id, TRUE, 0, "GLOBAL", "global")
        ELSE IF project_count <= 1 THEN BrDict(selected_id, FALSE, project_count, "LOW", "single")
        ELSE IF project_count = 2 THEN BrDict(selected_id, FALSE, project_count, "MEDIUM", "shared2")
        ELSE BrDict(selected_id, FALSE, project_count, "HIGH", "sharedN")

\* analyze_blast_radius(field_name, field_contexts, target_project_id)
analyze_blast_radius(contexts, target) ==
    IF target = NoneId THEN [kind |-> "TypeError"]
    ELSE
    LET tpid       == Str(target)
        applicable == ApplicableCtxs(contexts, tpid)
    IN  IF applicable = <<>>
        THEN IF ~any_nonempty_project_map(contexts) /\ Len(contexts) > 1
             THEN BrDict(NoneId, FALSE, 0, "CRITICAL", "no_mappings")
             ELSE IF GlobalCtxs(contexts) # <<>> THEN Classify(GlobalCtxs(contexts)[1])
             ELSE IF contexts # <<>> THEN Classify(contexts[1])
             ELSE BrDict(NoneId, FALSE, 0, "CRITICAL", "no_contexts")
        ELSE Classify(SortedByKey(applicable)[1])

(***************************************************************************)
(* Inputs of the analyzer: context payload shapes and target project ids   *)
(***************************************************************************)

MaxCtx == 3

\* payload shapes of one context: is there a projectIds/projects list, what
\* does it hold, and the isGlobalContext flag ("absent" when not a boolean)
CtxShapes ==
    { [known |-> FALSE, pids |-> <<>>,        flag |-> "absent"],
      [known |-> FALSE, pids |-> <<>>,        flag |-> "true"],
      [known |-> TRUE,  pids |-> <<>>,        flag |-> "absent"],
      [known |-> TRUE,  pids |-> <<>>,        flag |-> "false"],
      [known |-> TRUE,  pids |-> <<1>>,       flag |-> "absent"],
      [known |-> TRUE,  pids |-> <<1>>,       flag |-> "true"],
      [known |-> TRUE,  pids |-> <<0, -1>>,   flag |-> "absent"],
      [known |-> TRUE,  pids |-> <<2>>,       flag |-> "absent"],
      [known |-> TRUE,  pids |-> <<1, 2>>,    flag |-> "absent"],
      [known |-> TRUE,  pids |-> <<1, 1, 1>>, flag |-> "absent"],
      [known |-> TRUE,  pids |-> <<2, 3>>,    flag |-> "absent"],
      [known |-> TRUE,  pids |-> <<3, 1, 2>>, flag |-> "absent"] }

\* target_project_id: None, the string "1", the int 1, the string "3"
BrTargets == {NoneId, 1, -1, 3}

\* a context of the given shape whose id is its position in the list
CtxAt(i, shape) == [id |-> i, known |-> shape.known, pids |-> shape.pids, flag |-> shape.flag]

BrContextLists ==
    UNION { { [i \in 1..n |-> CtxAt(i, f[i])] : f \in [1..n -> CtxShapes] } : n \in 0..MaxCtx }

BrInit ==
    /\ brContexts \in BrContextLists
    /\ brTarget \in BrTargets
    /\ brOut = NoResult
    \* the other components are not in use
    /\ avPc = "idle" /\ avReq = NoResult /\ avLoc = NoResult /\ avCalls = <<>> /\ avResult = NoResult
    /\ whSecret = NoResult /\ whReq = NoResult /\ whResp = NoResult
    /\ hyEngine = NoResult /\ hyPayload = NoResult /\ hyOut = NoResult
    /\ stRule = NoResult /\ stJira = NoResult /\ stOut = NoResult
    /\ wvRule = NoResult /\ wvJira = NoResult /\ wvOut = NoResult
    /\ olPrompt = NoResult /\ olReply = NoResult /\ olOut = NoResult
    /\ l1Ticket = NoResult /\ l1Out = NoResult
    /\ arComments = <<>> /\ arRuns = 0 /\ arLast = NoResult
    /\ hhPayload = NoResult /\ hhDefault = NoResult /\ hhOut = NoResult
    /\ srRule = NoResult /\ srPayload = NoResult /\ srOut = NoResult
    /\ ruRule = NoResult /\ ruJira = NoResult /\ ruOut = NoResult
    /\ mlPc = "idle" /\ mlLoc = NoResult
    /\ alLabels = <<>> /\ alCalls = <<>> /\ alOut = NoResult
    /\ caPc = NoResult /\ caSeen = NoResult /\ caComments = <<>>

\* one call of analyze_blast_radius on the drawn arguments
Analyze ==
    /\ brOut = NoResult
    /\ brOut' = analyze_blast_radius(brContexts, brTarget)
    /\ UNCHANGED <<brContexts, brTarget>>
    /\ UNCHANGED <<avVars, whVars, hyVars, stVars, wvVars, olVars, l1Vars, arVars, hhVars,
                 srVars, ruVars, mlVars, alVars, caVars>>

SpecBlast == BrInit /\ [][Analyze]_vars

(***************************************************************************)
(* llm/ollama_client.py: call_ollama and its structured fallback           *)
(*                                                                         *)
(* A prompt is the set of the keywords its lower-cased text contains.  A   *)
(* reply is what requests.post does: it raises ("timeout",                  *)
(* "connection_error"), answers with an error status ("http_error") or a   *)
(* body that is no JSON object ("bad_body"), or carries a response text.   *)
(* A text is described by how it is wrapped (code fence, known prefix,     *)
(* other chatter around the JSON), by what its body is, and by its counts  *)
(* of non-whitespace, interior whitespace and outer whitespace characters. *)
(***************************************************************************)

AdminWords      == {"field", "custom", "admin", "create", "configuration"}
PmWords         == {"enhance", "improve", "meeting", "notes", "story"}
GovernanceWords == {"governance", "violation", "cleanup", "standard"}

MinTextLen == 10

\* the bucket of _get_structured_fallback with the PM and governance tests
\* made before the admin test
FallbackBucket_AdminLast(prompt) ==
    IF prompt \cap PmWords # {} THEN "pm"
    ELSE IF prompt \cap GovernanceWords # {} THEN "governance"
    ELSE IF prompt \cap AdminWords # {} THEN "admin"
    ELSE "generic"

\* the if / elif / elif / else of _get_structured_fallback
FallbackBucket(prompt) ==
    IF prompt \cap AdminWords # {} THEN "admin"
    ELSE IF prompt \cap PmWords # {} THEN "pm"
    ELSE IF prompt \cap GovernanceWords # {} THEN "governance"
    ELSE "generic"

\* _get_structured_fallback(prompt, error_type): the keys of the returned dict
\* that callers read.  marker is "absent" when the dict has no such key, else
\* the text between "<!--" and "-<error_type>-->".
_get_structured_fallback(prompt, error_type) ==
    LET bucket == FallbackBucket(prompt)
    IN  [kind |-> "fallback", bucket |-> bucket,
         marker |-> CASE bucket = "admin"      -> "absent"
                      [] bucket = "pm"         -> "pm-ai-fallback"
                      [] bucket = "governance" -> "governance-bot-fallback"
                      [] OTHER                 -> "ai-fallback",
         has_plan |-> bucket = "admin",
         has_error |-> bucket = "generic",
         fallback_reason |-> error_type]

\* `needle in marker` for the marker texts above
MarkerContains(marker, needle) ==
    \/ marker # "absent" /\ marker = needle
    \/ marker = "pm-ai-fallback" /\ needle = "ai-fallback"

\* _clean_response_text(text): a code fence or a known prefix is cut off; text
\* around a JSON object is cut off by the brace matching; text around any other
\* body stays
_clean_response_text(text) ==
    IF text.wrap \in {"fence", "prefix"} THEN [text EXCEPT !.wrap = "none"]
    ELSE IF text.wrap = "chatter" /\ text.body \in {"object_decision", "object_plain"}
    THEN [text EXCEPT !.wrap = "none"]
    ELSE text

\* json.loads(cleaned_text): the parsed value, or "JSONDecodeError"
json_loads(cleaned) ==
    IF cleaned.wrap = "none" /\ cleaned.body \in {"object_decision", "object_plain", "array"}
    THEN cleaned.body
    ELSE "JSONDecodeError"

\* len(text.strip()) counting only the characters that are not whitespace
StrippedLen_NonWhitespace(text) == text.nonws

\* len(text.strip()), text = result.get("response", "").strip()
StrippedLen(text) == text.nonws + text.inner_ws

\* call_ollama(prompt, system_prompt, config)
call_ollama(prompt, reply) ==
    CASE reply.kind = "timeout"          -> _get_structured_fallback(prompt, "timeout")
      [] reply.kind = "connection_error" -> _get_structured_fallback(prompt, "connection_error")
      [] reply.kind \in {"http_error", "bad_body"} -> _get_structured_fallback(prompt, "error")
      [] OTHER ->
            LET parsed == json_loads(_clean_response_text(reply.text))
            IN  IF StrippedLen(reply.text) < MinTextLen
                THEN _get_structured_fallback(prompt, "empty_response")
                ELSE IF parsed = "JSONDecodeError"
                THEN _get_structured_fallback(prompt, "invalid_json")
                ELSE IF prompt \cap {"field", "admin"} # {} /\ parsed = "array"
                THEN _get_structured_fallback(prompt, "invalid_structure")
                ELSE IF prompt \cap {"field", "admin"} # {} /\ parsed = "object_plain"
                THEN _get_structured_fallback(prompt, "missing_fields")
                ELSE [kind |-> "parsed", value |-> parsed]

\* the response texts: a body with one of approved/status/decision has at
\* least 12 characters that are not whitespace, a wrapper adds characters
\* and whitespace
OlTexts ==
    { t \in [body : {"object_decision", "object_plain", "array", "prose", "empty"},
             wrap : {"none", "fence", "prefix", "chatter"},
             nonws : {0, 5, 7, 8, 9, 10, 13, 30}, inner_ws : {0, 4}, outer_ws : {0, 2}] :
        /\ t.body = "empty" <=> t.nonws = 0
        /\ t.nonws < 2 => t.inner_ws = 0
        /\ t.body = "object_decision" => t.nonws >= 13
        /\ t.body \in {"prose", "empty"} => t.wrap = "none"
        /\ t.wrap # "none" => (t.nonws >= 10 /\ t.inner_ws > 0) }

OlReplies ==
    [kind : {"timeout", "connection_error", "http_error", "bad_body"}, text : {NoResult}]
    \cup [kind : {"text"}, text : OlTexts]

(***************************************************************************)
(* llm/agents/admin_validator.py: process_admin_request                    *)
(*                                                                         *)
(* The handler is sequential; it is modelled by one action per call it     *)
(* makes on the Jira client or the LLM, each action being the call, its    *)
(* response and the code up to the next call.  avPc names the next call.   *)
(***************************************************************************)

OpWords == {"add", "remove", "disable", "enable"}
\* option|options|value|values
OptionNouns == {"option", "values"}
\* option|options|value|values|following
OptionNounsF == OptionNouns \cup {"following"}

HasWord(text, W) == \E i \in 1..Len(text) : text[i] \in W

\* re.search(r"\b(add|remove|disable|enable)\b", text).group(1): the leftmost one
FirstOpWord(text) ==
    text[CHOOSE i \in 1..Len(text) : text[i] \in OpWords /\ \A j \in 1..(i - 1) : text[j] \notin OpWords]

\* the detection without the safety heuristic of lines 94-98
DetectOperation_NoHeuristic(text) ==
    IF HasWord(text, {"add"}) /\ HasWord(text, OptionNounsF) THEN "add"
    ELSE IF HasWord(text, {"remove"}) /\ HasWord(text, OptionNouns) THEN "remove"
    ELSE IF HasWord(text, {"disable"}) /\ HasWord(text, OptionNouns) THEN "disable"
    ELSE "none"

\* lines 83-98: the detected operation_type, "none" for None
DetectOperation(text) ==
    IF HasWord(text, {"add"}) /\ HasWord(text, OptionNounsF) THEN "add"
    ELSE IF HasWord(text, {"remove"}) /\ HasWord(text, OptionNouns) THEN "remove"
    ELSE IF HasWord(text, {"disable"}) /\ HasWord(text, OptionNouns) THEN "disable"
    ELSE IF HasWord(text, OpWords) /\ HasWord(text, OptionNounsF) THEN FirstOpWord(text)
    ELSE "none"

\* str.lower() on the words that occur in field names
LowerWord(w) ==
    CASE w = "Color" -> "color"
      [] w = "COLOR" -> "color"
      [] w = "Size"  -> "size"
      [] w = "Your"  -> "your"
      [] w = "Project" -> "project"
      [] w = "AND"   -> "and"
      [] w = "Red"   -> "red"
      [] OTHER -> w

\* str.lower() on a name, a sequence of words
Lower(name) == [i \in 1..Len(name) |-> LowerWord(name[i])]

\* line 75: cut the name at the first " and ", " with " or " to " (any case)
TrimFieldName(name) ==
    LET cuts == {i \in 2..(Len(name) - 1) : LowerWord(name[i]) \in {"and", "with", "to"}}
    IN  IF cuts = {} THEN name
        ELSE SubSeq(name, 1, (CHOOSE i \in cuts : \A j \in cuts : i <= j) - 1)

\* a lookup that falls back to the first field, as the project search does
FindFieldMeta_FirstOrDefault(all_fields, field_name) ==
    LET hits == {i \in 1..Len(all_fields) : Lower(all_fields[i].name) = Lower(field_name)}
    IN  IF hits = {} THEN (IF all_fields # <<>> THEN 1 ELSE 0)
        ELSE CHOOSE i \in hits : \A j \in hits : i <= j

\* line 130: the first custom field whose lower-cased name equals the request's
FindFieldMeta(all_fields, field_name) ==
    LET hits == {i \in 1..Len(all_fields) : Lower(all_fields[i].name) = Lower(field_name)}
    IN  IF hits = {} THEN 0 ELSE CHOOSE i \in hits : \A j \in hits : i <= j

\* lines 145-152: the id of the first field named "your project", -1 when there is none
YourProjectFieldIdx(fields) ==
    LET hits == {i \in 1..Len(fields) : Lower(fields[i].name) = <<"your", "project">>}
    IN  IF hits = {} THEN 0 ELSE CHOOSE i \in hits : \A j \in hits : i <= j

\* line 316-317: any(t in schema_key for t in allowed_types), as a substring test
\* on the lower-cased custom type keys of Jira
SchemaSupportsOptions(schema_key) ==
    schema_key \in {"select", "multiselect", "cascadingselect", "multicheckboxes", "radiobuttons"}

Call(op, ctx, arg) == [op |-> op, ctx |-> ctx, arg |-> arg]

CountCalls(calls, ops) == Cardinality({i \in 1..Len(calls) : calls[i].op \in ops})

OptionWriteOps == {"POST_option", "PUT_option", "DELETE_option"}

\* the returned dict; a key the dict does not have is "absent" (-1 for a count)
AvDict(success, status, reason) ==
    [kind |-> "dict", success |-> success, status |-> status, reason |-> reason,
     risk |-> "absent", error |-> "absent",
     field_created |-> "absent", field_id |-> NoneId, duplicates_found |-> -1]

\* the state of the handler's local variables before they are assigned
AvLocals0 ==
    [field_name |-> <<>>, operation_type |-> "none", field_exists |-> FALSE,
     field_id |-> NoneId, schema_key |-> "", project |-> "",
     field_contexts |-> <<>>, start_at |-> 0, pages |-> 0, context_to_projects |-> {},
     target_project_id |-> NoneId, br_result |-> NoResult, context_id |-> NoneId,
     risk_level |-> "", option_values |-> <<>>, existing_options |-> <<>>, idx |-> 1,
     success |-> TRUE, errors |-> 0, duplicates_found |-> -1,
     approved |-> FALSE, auto_create |-> FALSE, policy_note |-> FALSE, allow_creation |-> FALSE,
     all_fields |-> <<>>, ai_result |-> NoResult, creation_flag |-> "absent", create_res |-> NoResult]

\* ---- the handler's inputs and the responses of Jira and the LLM ----

MaxPages == 2

\* lower-cased summary + description
AvTexts ==
    { <<"create", "field">>, <<"add", "option">>, <<"add", "following">>,
      <<"remove", "values">>, <<"remove", "following">>, <<"disable", "option">>,
      <<"enable", "option">>, <<"disable", "enable", "following">>,
      <<"enable", "remove", "following">>, <<"add">>, <<"option">>,
      <<"following", "enable">> }

\* field_details["field_name"] as returned by the extractor ("" is <<>>)
AvExtractedNames == { <<>>, <<"Color">>, <<"COLOR", "AND", "Size">>, <<"Size">> }

\* the option values parsed from the text (lines 101-115)
AvOptionLists == { <<>>, <<"red">>, <<"red", "blue">> }

Field(id, name, schema) == [id |-> id, name |-> name, schema |-> schema]

\* JiraAPI.get_all_custom_fields(): {"error": ...} or {"success": True, "fields": [...]}
FieldsResponses ==
    { [ok |-> FALSE, fields |-> <<>>],
      [ok |-> TRUE,  fields |-> <<>>],
      [ok |-> TRUE,  fields |-> <<Field(10, <<"color">>, "select")>>],
      [ok |-> TRUE,  fields |-> <<Field(12, <<"Your", "Project">>, "textfield"),
                                  Field(10, <<"Color">>, "multicheckboxes")>>],
      [ok |-> TRUE,  fields |-> <<Field(11, <<"Color">>, "textfield"),
                                  Field(10, <<"color">>, "select")>>],
      [ok |-> TRUE,  fields |-> <<Field(NoneId, <<"Color">>, "select")>>],
      [ok |-> TRUE,  fields |-> <<Field(13, <<"Size">>, "")>>] }

Ctx(id, known, pids, flag) == [id |-> id, known |-> known, pids |-> pids, flag |-> flag]

\* GET /rest/api/3/field/{id}/context: an exception, a status, the "values"
ContextResponses ==
    { [raises |-> TRUE,  status |-> 0,   values |-> <<>>],
      [raises |-> FALSE, status |-> 404, values |-> <<>>],
      [raises |-> FALSE, status |-> 200, values |-> <<>>],
      [raises |-> FALSE, status |-> 200, values |-> <<Ctx(1, FALSE, <<>>, "true")>>],
      [raises |-> FALSE, status |-> 200, values |-> <<Ctx(1, FALSE, <<>>, "true"), Ctx(2, FALSE, <<>>, "false")>>],
      [raises |-> FALSE, status |-> 200, values |-> <<Ctx(2, FALSE, <<>>, "false"), Ctx(3, FALSE, <<>>, "false")>>],
      [raises |-> FALSE, status |-> 200, values |-> <<Ctx(2, FALSE, <<>>, "absent"), Ctx(3, FALSE, <<>>, "absent")>>],
      [raises |-> FALSE, status |-> 200, values |-> <<Ctx(NoneId, TRUE, <<1>>, "false")>>],
      [raises |-> FALSE, status |-> 200, values |-> <<Ctx(NoneId, FALSE, <<>>, "true")>>] }

Pair(c, q) == [contextId |-> c, projectId |-> q]

Page(values, isLast, total, maxResults) ==
    [raises |-> FALSE, status |-> 200, values |-> values, isLast |-> isLast,
     total |-> total, maxResults |-> maxResults]

\* GET .../context/projectmapping: one page; total and maxResults are -1 when absent
MappingPages ==
    { [raises |-> TRUE,  status |-> 0,   values |-> <<>>, isLast |-> "absent", total |-> -1, maxResults |-> -1],
      [raises |-> FALSE, status |-> 500, values |-> <<>>, isLast |-> "absent", total |-> -1, maxResults |-> -1],
      Page(<<>>, "true", -1, -1),
      Page(<<Pair(2, 1)>>, "true", -1, -1),
      Page(<<Pair(-2, -1)>>, "false", -1, 0),
      Page(<<Pair(2, 1), Pair(2, 2)>>, "true", -1, -1),
      Page(<<Pair(2, 2), Pair(2, 3)>>, "false", -1, 2),
      Page(<<Pair(3, 1), Pair(NoneId, 1)>>, "absent", -1, -1),
      Page(<<Pair(2, 2)>>, "absent", 2, 1),
      Page(<<Pair(3, 2)>>, "absent", 1, 1) }

\* does this page end the pagination loop (lines 182-220)
EndsMapping(page, start_at) ==
    \/ page.raises
    \/ page.status # 200
    \/ page.values = <<>>
    \/ page.isLast = "true"
    \/ page.isLast = "absent" /\ (page.total = -1 \/ page.maxResults = -1)
    \/ page.isLast = "absent" /\ start_at + page.maxResults >= page.total

\* GET /rest/api/3/project/{key}
ProjectResponses ==
    { [raises |-> TRUE,  status |-> 0,   id |-> NoneId],
      [raises |-> FALSE, status |-> 404, id |-> NoneId],
      [raises |-> FALSE, status |-> 200, id |-> NoneId],
      [raises |-> FALSE, status |-> 200, id |-> -1] }

\* GET /rest/api/3/project/search: each value with its id and whether its key or
\* name equals the requested project, case-insensitively
ProjectSearchResponses ==
    { [raises |-> TRUE,  status |-> 0,   values |-> <<>>],
      [raises |-> FALSE, status |-> 500, values |-> <<>>],
      [raises |-> FALSE, status |-> 200, values |-> <<>>],
      [raises |-> FALSE, status |-> 200, values |-> <<[exact |-> FALSE, id |-> 2]>>],
      [raises |-> FALSE, status |-> 200, values |-> <<[exact |-> FALSE, id |-> 3], [exact |-> TRUE, id |-> 1]>>] }

\* POST/PUT on .../context/{ctx}/option
WriteResponses ==
    { [raises |-> TRUE, status |-> 0], [raises |-> FALSE, status |-> 201],
      [raises |-> FALSE, status |-> 204], [raises |-> FALSE, status |-> 400] }

\* GET .../context/{ctx}/option
OptionsResponses ==
    { [raises |-> TRUE,  status |-> 0,   values |-> <<>>],
      [raises |-> FALSE, status |-> 404, values |-> <<>>],
      [raises |-> FALSE, status |-> 200, values |-> <<[id |-> 5, value |-> "Red"]>>],
      [raises |-> FALSE, status |-> 200, values |-> <<[id |-> 5, value |-> "red"], [id |-> 6, value |-> "blue"]>>] }

\* LLMProvider.chat(): a non-dict, or a dict with or without "error", "approved"
\* and "auto_create" ("missing" when the key is absent)
LLMResults ==
    { [isdict |-> FALSE, error |-> FALSE, approved |-> "missing", auto_create |-> "missing"],
      [isdict |-> TRUE,  error |-> TRUE,  approved |-> "true",    auto_create |-> "true"] }
    \cup { [isdict |-> TRUE, error |-> FALSE, approved |-> a, auto_create |-> c] :
             a \in {"true", "false", "missing"}, c \in {"true", "false", "missing"} }

\* the prompt built at lines 423-439: it holds "Field Name:" and the request's
\* summary and description
AdminPrompts == { {"field"} \cup extra : extra \in SUBSET {"governance", "story"} }

\* LLMProvider.chat() through call_ollama when the call fails: the fallback dict
\* as the handler reads it
OllamaFailures ==
    { [isdict |-> TRUE, error |-> o.has_error, approved |-> "missing", auto_create |-> "missing",
       fallback_reason |-> o.fallback_reason] :
        o \in { out \in { call_ollama(prompt, reply) : prompt \in AdminPrompts, reply \in OlReplies } :
                  out.kind = "fallback" } }

\* config.enable_field_creation: absent, False or True
CreationFlags == {"absent", "false", "true"}

\* JiraAPI.create_custom_field(): {"error": ...} or {"success": True, "field": {"id": ...}}
CreateResponses == { [error |-> TRUE, id |-> NoneId], [error |-> FALSE, id |-> 7] }

\* ---- the handler ----

\* the next position of the handler with its locals, call log and result
AvStep(pc, loc, calls, result) == [pc |-> pc, loc |-> loc, calls |-> calls, result |-> result]

\* a return: the comment is posted, then the dict is returned
AvReturn(loc, calls, comment, result) ==
    AvStep("done", loc, Append(calls, Call("add_comment", NoneId, comment)), result)

\* lines 500-506: any exception is caught, reported in a comment and returned
AvExcept(loc, calls) ==
    AvStep("done", loc, Append(calls, Call("add_comment", NoneId, "error")),
           [AvDict("false", "absent", "absent") EXCEPT !.error = "raised"])

AvApply(step) ==
    /\ avPc' = step.pc
    /\ avLoc' = step.loc
    /\ avCalls' = step.calls
    /\ avResult' = step.result
    /\ UNCHANGED avReq
    /\ UNCHANGED <<brVars, whVars, hyVars, stVars, wvVars, olVars, l1Vars, arVars, hhVars,
                 srVars, ruVars, mlVars, alVars, caVars>>

\* lines 369-399: the closing comment of the modify path
ModifyFinal(loc, calls) ==
    AvReturn(loc, calls, IF loc.success THEN "completed" ELSE "partial",
             AvDict("true", IF loc.success THEN "completed" ELSE "partial", "absent"))

\* lines 60-100 and 401-414: extraction, trimming and classification
BeginStep(req) ==
    LET field_name == TrimFieldName(req.extracted)
        op         == DetectOperation(req.text)
        loc        == [AvLocals0 EXCEPT !.field_name = field_name, !.operation_type = op,
                                        !.option_values = req.option_values]
    IN  IF field_name = <<>>
        THEN AvReturn(loc, <<>>, "no_field_name", AvDict("true", "needs_info", "no_field_name"))
        ELSE IF op # "none" THEN AvStep("get_all_custom_fields", loc, <<>>, NoResult)
        ELSE IF op \in OpWords
             THEN AvReturn(loc, <<>>, "safety", AvDict("true", "rejected", "safety_no_create_on_modify"))
        ELSE AvStep("check_duplicate_field", loc, <<>>, NoResult)

AvBegin ==
    /\ avPc = "start"
    /\ AvApply(BeginStep(avReq))

\* lines 117-165: the custom-field list, the field's existence, the project
FieldsStep(loc, calls0, resp, your_project, issue_value) ==
    LET calls      == Append(calls0, Call("get_all_custom_fields", NoneId, ""))
        all_fields == IF resp.ok THEN resp.fields ELSE <<>>
        m          == FindFieldMeta(all_fields, loc.field_name)
        yp         == YourProjectFieldIdx(all_fields)
        project    == IF your_project # "" THEN your_project
                      ELSE IF resp.ok /\ yp # 0 /\ all_fields[yp].id # NoneId THEN issue_value
                      ELSE ""
    IN  IF m = 0
        THEN AvReturn([loc EXCEPT !.all_fields = all_fields], calls, "field_not_found",
                      AvDict("true", "rejected", "field_not_found_for_modify"))
        ELSE IF project = ""
        THEN AvReturn([loc EXCEPT !.all_fields = all_fields, !.field_exists = TRUE], calls, "no_project",
                      AvDict("true", "needs_info", "no_project"))
        ELSE LET loc1 == [loc EXCEPT !.all_fields = all_fields,
                                     !.field_exists = TRUE, !.field_id = all_fields[m].id,
                                     !.schema_key = all_fields[m].schema, !.project = project]
             IN  IF loc1.field_id # NoneId
                 THEN AvStep("GET_context", loc1, calls, NoResult)
                 ELSE AvStep("GET_project", loc1, calls, NoResult)

AvGetFields ==
    /\ avPc = "get_all_custom_fields"
    /\ \E resp \in FieldsResponses, your_project \in {"", "SBX"}, issue_value \in {"", "SBX"} :
          AvApply(FieldsStep(avLoc, avCalls, resp, your_project, issue_value))

\* lines 159-170: the field's contexts
ContextsStep(loc, calls0, resp) ==
    LET calls == Append(calls0, Call("GET_context", NoneId, ""))
    IN  IF resp.raises THEN AvExcept(loc, calls)
        ELSE LET ctxs == IF resp.status = 200 THEN resp.values ELSE <<>>
                 loc1 == [loc EXCEPT !.field_contexts = ctxs]
             IN  IF ctxs # <<>> THEN AvStep("GET_projectmapping", loc1, calls, NoResult)
                 ELSE AvStep("GET_project", loc1, calls, NoResult)

AvGetContexts ==
    /\ avPc = "GET_context"
    /\ \E resp \in ContextResponses : AvApply(ContextsStep(avLoc, avCalls, resp))

RECURSIVE SortedSeqOf(_)
\* sorted(set): ascending
SortedSeqOf(S) ==
    IF S = {} THEN <<>>
    ELSE LET m == CHOOSE x \in S : \A y \in S : x <= y
         IN  <<m>> \o SortedSeqOf(S \ {m})

\* lines 223-232: projectIds injected into each context from the mapping
InjectProjectIds(ctxs, ctp) ==
    IF ctp = {} THEN ctxs
    ELSE [i \in 1..Len(ctxs) |->
            LET cid   == Str(ctxs[i].id)
                projs == {q[2] : q \in {r \in ctp : r[1] = cid}}
            IN  IF projs # {} THEN [ctxs[i] EXCEPT !.known = TRUE, !.pids = SortedSeqOf(projs)]
                ELSE IF ~ctxs[i].known THEN [ctxs[i] EXCEPT !.known = TRUE, !.pids = <<>>]
                ELSE ctxs[i]]

\* lines 196-203: the (context, project) pairs of a page, as strings
PagePairs(values) ==
    { <<Str(values[i].contextId), Str(values[i].projectId)>> :
        i \in {k \in 1..Len(values) : values[k].contextId # NoneId /\ values[k].projectId # NoneId} }

\* lines 177-241: one iteration of the pagination loop, and the injection when it ends
MappingStep(loc, calls0, page) ==
    LET calls == Append(calls0, Call("GET_projectmapping", loc.start_at, ""))
        loc0  == [loc EXCEPT !.pages = loc.pages + 1]
        ctp   == loc.context_to_projects \cup PagePairs(page.values)
        done(c) == AvStep("GET_project",
                          [loc0 EXCEPT !.context_to_projects = c,
                                       !.field_contexts = InjectProjectIds(loc.field_contexts, c)],
                          calls, NoResult)
        more(n) == AvStep("GET_projectmapping",
                          [loc0 EXCEPT !.context_to_projects = ctp, !.start_at = n], calls, NoResult)
    IN  IF page.raises THEN AvStep("GET_project", loc0, calls, NoResult)
        ELSE IF page.status # 200 \/ page.values = <<>> THEN done(loc.context_to_projects)
        ELSE IF page.isLast = "true" THEN done(ctp)
        ELSE IF page.isLast = "false"
             THEN more(loc.start_at + (IF page.maxResults > 0 THEN page.maxResults ELSE Len(page.values)))
        ELSE IF page.total = -1 \/ page.maxResults = -1 THEN done(ctp)
        ELSE IF loc.start_at + page.maxResults >= page.total THEN done(ctp)
        ELSE more(loc.start_at + page.maxResults)

AvMappingPage ==
    /\ avPc = "GET_projectmapping"
    /\ \E page \in MappingPages :
          /\ avLoc.pages + 1 < MaxPages \/ EndsMapping(page, avLoc.start_at)
          /\ AvApply(MappingStep(avLoc, avCalls, page))

\* the risk without the override for a missing context id
EffectiveRisk_NoOverride(br) == br.risk_level

\* lines 264-267: without a selected context id the risk is HIGH
EffectiveRisk(br) == IF br.selected_context_id = NoneId THEN "HIGH" ELSE br.risk_level

\* lines 246-325: blast radius and the decision gates, up to the first option call
GatesStep(loc0, calls, target) ==
    LET br == analyze_blast_radius(loc0.field_contexts, target)
    IN  IF br.kind = "TypeError" THEN AvExcept([loc0 EXCEPT !.target_project_id = target], calls)
        ELSE
        LET context_id == br.selected_context_id
            risk_level == EffectiveRisk(br)
            loc == [loc0 EXCEPT !.target_project_id = target, !.br_result = br,
                                !.context_id = context_id, !.risk_level = risk_level]
        IN  IF br.is_global
            THEN AvReturn(loc, calls, "global",
                          AvDict("absent", "Rejected", "Applicable context is GLOBAL; manual review required"))
            ELSE IF risk_level \in {"MEDIUM", "HIGH", "CRITICAL"}
            THEN AvReturn(loc, calls, "held", [AvDict("true", "held", "absent") EXCEPT !.risk = risk_level])
            ELSE IF ~SchemaSupportsOptions(loc.schema_key)
            THEN AvReturn(loc, calls, "not_supported", AvDict("true", "not_supported", "absent"))
            ELSE IF loc.operation_type = "add"
                 THEN IF loc.option_values = <<>> THEN ModifyFinal(loc, calls)
                      ELSE AvStep("POST_option", loc, calls, NoResult)
                 ELSE AvStep("GET_option", loc, calls, NoResult)

\* _resolve_project_id, first request (lines 32-35)
ResolveStep(loc, calls0, resp) ==
    LET calls == Append(calls0, Call("GET_project", NoneId, ""))
    IN  IF resp.raises THEN AvExcept(loc, calls)
        ELSE IF resp.status = 200 THEN GatesStep(loc, calls, Str(resp.id))
        ELSE AvStep("GET_project_search", loc, calls, NoResult)

AvResolveProject ==
    /\ avPc = "GET_project"
    /\ \E resp \in ProjectResponses : AvApply(ResolveStep(avLoc, avCalls, resp))

\* _resolve_project_id, the search fallback (lines 37-55)
ResolveSearchStep(loc, calls0, resp) ==
    LET calls == Append(calls0, Call("GET_project_search", NoneId, ""))
        vals  == resp.values
        hits  == {i \in 1..Len(vals) : vals[i].exact}
        pick  == IF hits # {} THEN CHOOSE i \in hits : \A j \in hits : i <= j
                 ELSE IF vals # <<>> THEN 1 ELSE 0
    IN  IF resp.raises THEN AvExcept(loc, calls)
        ELSE IF resp.status = 200 /\ pick # 0 THEN GatesStep(loc, calls, Str(vals[pick].id))
        ELSE GatesStep(loc, calls, NoneId)

AvResolveSearch ==
    /\ avPc = "GET_project_search"
    /\ \E resp \in ProjectSearchResponses : AvApply(ResolveSearchStep(avLoc, avCalls, resp))

\* lines 331-339: one POST per requested value
PostOptionStep(loc, calls0, resp) ==
    LET calls == Append(calls0, Call("POST_option", loc.context_id, loc.option_values[loc.idx]))
        ok    == resp.status \in {200, 201, 204}
        loc1  == [loc EXCEPT !.idx = loc.idx + 1,
                             !.success = loc.success /\ ok,
                             !.errors = loc.errors + (IF ok THEN 0 ELSE 1)]
    IN  IF resp.raises THEN AvExcept(loc, calls)
        ELSE IF loc1.idx > Len(loc.option_values) THEN ModifyFinal(loc1, calls)
        ELSE AvStep("POST_option", loc1, calls, NoResult)

AvPostOption ==
    /\ avPc = "POST_option"
    /\ \E resp \in WriteResponses : AvApply(PostOptionStep(avLoc, avCalls, resp))

\* line 347: the first existing option whose lower-cased value equals the requested one
FindOption(existing, val) ==
    LET hits == {i \in 1..Len(existing) : LowerWord(existing[i].value) = LowerWord(val)}
    IN  IF hits = {} THEN 0 ELSE CHOOSE i \in hits : \A j \in hits : i <= j

RECURSIVE RemoveLoop(_, _)
\* lines 346-367: the loop over the requested values, up to its next request.
\* JiraAPI has no _delete method: the remove branch raises AttributeError.
RemoveLoop(loc, calls) ==
    IF loc.idx > Len(loc.option_values) THEN ModifyFinal(loc, calls)
    ELSE IF FindOption(loc.existing_options, loc.option_values[loc.idx]) = 0
         THEN RemoveLoop([loc EXCEPT !.idx = loc.idx + 1, !.success = FALSE, !.errors = loc.errors + 1], calls)
    ELSE IF loc.operation_type = "disable" THEN AvStep("PUT_option", loc, calls, NoResult)
    ELSE IF loc.operation_type = "remove" THEN AvExcept(loc, calls)
    ELSE RemoveLoop([loc EXCEPT !.idx = loc.idx + 1], calls)

\* lines 342-344: the existing options of the selected context
OptionsStep(loc, calls0, resp) ==
    LET calls == Append(calls0, Call("GET_option", loc.context_id, ""))
        loc1  == [loc EXCEPT !.existing_options = IF resp.status = 200 THEN resp.values ELSE <<>>]
    IN  IF resp.raises THEN AvExcept(loc, calls)
        ELSE RemoveLoop(loc1, calls)

AvGetOptions ==
    /\ avPc = "GET_option"
    /\ \E resp \in OptionsResponses : AvApply(OptionsStep(avLoc, avCalls, resp))

\* lines 354-361: disable one option
PutOptionStep(loc, calls0, resp) ==
    LET calls == Append(calls0, Call("PUT_option", loc.context_id, loc.option_values[loc.idx]))
        ok    == resp.status \in {200, 204}
        loc1  == [loc EXCEPT !.idx = loc.idx + 1,
                             !.success = loc.success /\ ok,
                             !.errors = loc.errors + (IF ok THEN 0 ELSE 1)]
    IN  IF resp.raises THEN AvExcept(loc, calls)
        ELSE RemoveLoop(loc1, calls)

AvPutOption ==
    /\ avPc = "PUT_option"
    /\ \E resp \in WriteResponses : AvApply(PutOptionStep(avLoc, avCalls, resp))

\* JiraAPI.check_duplicate_field: the exact (lower-cased) name matches
ExactDuplicates(fields, field_name) ==
    Cardinality({i \in 1..Len(fields) : Lower(fields[i].name) = Lower(field_name)})

\* lines 414-421
DuplicateStep(loc, calls0, resp) ==
    LET calls == Append(calls0, Call("check_duplicate_field", NoneId, ""))
    IN  IF ~resp.ok
        THEN AvReturn(loc, calls, "duplicate_check_failed", AvDict("true", "error", "duplicate_check_failed"))
        ELSE AvStep("llm_chat", [loc EXCEPT !.duplicates_found = ExactDuplicates(resp.fields, loc.field_name)],
                    calls, NoResult)

AvCheckDuplicate ==
    /\ avPc = "check_duplicate_field"
    /\ \E resp \in FieldsResponses : AvApply(DuplicateStep(avLoc, avCalls, resp))

\* lines 478-498: the closing comment and result of the create path
CreateFinal(loc, calls, field_created, field_id) ==
    AvReturn(loc, calls,
             IF loc.approved THEN (IF loc.policy_note THEN "approved_policy_disabled" ELSE "approved")
             ELSE "rejected",
             [AvDict("true", IF loc.approved THEN "approved" ELSE "rejected", "absent")
                EXCEPT !.field_created = IF field_created THEN "true" ELSE "false",
                       !.field_id = field_id,
                       !.duplicates_found = loc.duplicates_found])

\* the decision without the duplicate count
CreationWanted_IgnoresDuplicates(approved, auto_create, duplicates_found) ==
    approved /\ auto_create

\* lines 464 and 474: approved and auto_create and duplicates_found == 0
CreationWanted(approved, auto_create, duplicates_found) ==
    approved /\ auto_create /\ duplicates_found = 0

\* the decision with ai_result.get("approved", True) and .get("auto_create", True)
LLMStep_ApprovesByDefault(loc, calls0, ai, flag) ==
    LET calls       == Append(calls0, Call("llm_chat", NoneId, ""))
        usable      == ai.isdict /\ ~ai.error
        approved    == usable /\ ai.approved # "false"
        auto_create == usable /\ ai.auto_create # "false"
        allow       == flag = "true"
        wanted      == CreationWanted(approved, auto_create, loc.duplicates_found)
        loc1        == [loc EXCEPT !.approved = approved, !.auto_create = auto_create,
                                   !.allow_creation = allow,
                                   !.ai_result = ai, !.creation_flag = flag,
                                   !.policy_note = wanted /\ ~allow]
    IN  IF wanted /\ allow THEN AvStep("create_custom_field", loc1, calls, NoResult)
        ELSE CreateFinal(loc1, calls, FALSE, NoneId)

\* lines 450-476: the LLM's answer and the creation decision
LLMStep(loc, calls0, ai, flag) ==
    LET calls       == Append(calls0, Call("llm_chat", NoneId, ""))
        usable      == ai.isdict /\ ~ai.error
        approved    == usable /\ ai.approved = "true"
        auto_create == usable /\ ai.auto_create = "true"
        allow       == flag = "true"
        wanted      == CreationWanted(approved, auto_create, loc.duplicates_found)
        loc1        == [loc EXCEPT !.approved = approved, !.auto_create = auto_create,
                                   !.allow_creation = allow,
                                   !.ai_result = ai, !.creation_flag = flag,
                                   !.policy_note = wanted /\ ~allow]
    IN  IF wanted /\ allow THEN AvStep("create_custom_field", loc1, calls, NoResult)
        ELSE CreateFinal(loc1, calls, FALSE, NoneId)

AvLLMChat ==
    /\ avPc = "llm_chat"
    /\ \E ai \in LLMResults \cup OllamaFailures, flag \in CreationFlags :
          AvApply(LLMStep(avLoc, avCalls, ai, flag))

\* lines 465-473
CreateStep(loc, calls0, res) ==
    LET calls == Append(calls0, Call("create_custom_field", NoneId, ""))
        loc1  == [loc EXCEPT !.create_res = res]
    IN  IF res.error THEN CreateFinal(loc1, calls, FALSE, NoneId)
        ELSE CreateFinal(loc1, calls, TRUE, res.id)

AvCreateField ==
    /\ avPc = "create_custom_field"
    /\ \E res \in CreateResponses : AvApply(CreateStep(avLoc, avCalls, res))

AvRequests ==
    { [text |-> t, extracted |-> n, option_values |-> o] :
        t \in AvTexts, n \in AvExtractedNames, o \in AvOptionLists }

AvInit ==
    /\ avPc = "start"
    /\ avReq \in {r \in AvRequests : DetectOperation(r.text) = "none" => r.option_values = <<>>}
    /\ avLoc = AvLocals0
    /\ avCalls = <<>>
    /\ avResult = NoResult
    \* the other components are not in use
    /\ brContexts = <<>> /\ brTarget = NoneId /\ brOut = NoResult
    /\ whSecret = NoResult /\ whReq = NoResult /\ whResp = NoResult
    /\ hyEngine = NoResult /\ hyPayload = NoResult /\ hyOut = NoResult
    /\ stRule = NoResult /\ stJira = NoResult /\ stOut = NoResult
    /\ wvRule = NoResult /\ wvJira = NoResult /\ wvOut = NoResult
    /\ olPrompt = NoResult /\ olReply = NoResult /\ olOut = NoResult
    /\ l1Ticket = NoResult /\ l1Out = NoResult
    /\ arComments = <<>> /\ arRuns = 0 /\ arLast = NoResult
    /\ hhPayload = NoResult /\ hhDefault = NoResult /\ hhOut = NoResult
    /\ srRule = NoResult /\ srPayload = NoResult /\ srOut = NoResult
    /\ ruRule = NoResult /\ ruJira = NoResult /\ ruOut = NoResult
    /\ mlPc = "idle" /\ mlLoc = NoResult
    /\ alLabels = <<>> /\ alCalls = <<>> /\ alOut = NoResult
    /\ caPc = NoResult /\ caSeen = NoResult /\ caComments = <<>>

AvNext ==
    \/ AvBegin
    \/ AvGetFields
    \/ AvGetContexts
    \/ AvMappingPage
    \/ AvResolveProject
    \/ AvResolveSearch
    \/ AvPostOption
    \/ AvGetOptions
    \/ AvPutOption
    \/ AvCheckDuplicate
    \/ AvLLMChat
    \/ AvCreateField

SpecAdmin == AvInit /\ [][AvNext]_vars

(***************************************************************************)
(* Properties of process_admin_request                                     *)
(***************************************************************************)

CreationOps == {"check_duplicate_field", "llm_chat", "create_custom_field"}

\* a modify request as the claims word it: add/remove/disable/enable together
\* with an option/value noun
IsModifyText(text) == HasWord(text, OpWords) /\ HasWord(text, OptionNouns)

\* C1: for every request with a non-empty extracted field name whose text is
\* classified as a modify operation, no execution ever calls
\* check_duplicate_field, the LLM or create_custom_field, whatever the Jira
\* calls return or raise.
C1_ModifyNeverCreates ==
    (avReq.extracted # <<>> /\ IsModifyText(avReq.text)) => CountCalls(avCalls, CreationOps) = 0

C1_Witness ==
    /\ avPc = "done"
    /\ avReq.extracted # <<>>
    /\ IsModifyText(avReq.text)
    /\ avResult.error = "raised"
    /\ CountCalls(avCalls, {"GET_option"}) = 1

AvAnalyzed == avLoc.br_result # NoResult

\* C2: an option write happens only after all gates pass (context not global,
\* risk not MEDIUM/HIGH/CRITICAL, a context id selected, a schema with options);
\* a global applicable context is rejected, else a MEDIUM/HIGH/CRITICAL risk or
\* a missing context id is held, else an unsupported schema is rejected, each
\* with exactly one comment and zero option writes.
C2_GatesBeforeWrites ==
    /\ CountCalls(avCalls, OptionWriteOps) > 0 =>
          /\ AvAnalyzed
          /\ ~avLoc.br_result.is_global
          /\ avLoc.br_result.risk_level \notin {"MEDIUM", "HIGH", "CRITICAL"}
          /\ avLoc.br_result.selected_context_id # NoneId
          /\ SchemaSupportsOptions(avLoc.schema_key)
    /\ (avPc = "done" /\ AvAnalyzed) =>
          LET br       == avLoc.br_result
              risky    == br.risk_level \in {"MEDIUM", "HIGH", "CRITICAL"} \/ br.selected_context_id = NoneId
              stopped  == CountCalls(avCalls, {"add_comment"}) = 1 /\ CountCalls(avCalls, OptionWriteOps) = 0
          IN  /\ br.is_global => avResult.status = "Rejected" /\ stopped
              /\ (~br.is_global /\ risky) => avResult.status = "held" /\ stopped
              /\ (~br.is_global /\ ~risky /\ ~SchemaSupportsOptions(avLoc.schema_key)) =>
                    avResult.status = "not_supported" /\ stopped

C2_Witness ==
    /\ avPc = "done"
    /\ AvAnalyzed
    /\ avLoc.br_result.risk_level = "LOW"
    /\ avLoc.br_result.selected_context_id = NoneId
    /\ avResult.status = "held"

\* the LLM result as the handler reads it: a dict without an error
LLMSays(key) ==
    /\ avLoc.ai_result # NoResult
    /\ avLoc.ai_result.isdict
    /\ ~avLoc.ai_result.error
    /\ avLoc.ai_result[key] = "true"

FourConditions ==
    /\ LLMSays("approved")
    /\ LLMSays("auto_create")
    /\ avLoc.duplicates_found = 0
    /\ avLoc.creation_flag = "true"

LLMFailed ==
    /\ avLoc # NoResult
    /\ avLoc.ai_result # NoResult
    /\ "fallback_reason" \in DOMAIN avLoc.ai_result

\* C12: in the create path, if the LLM call fails in any way (timeout,
\* connection error, HTTP error, empty response, unparsable JSON, or a parsed
\* answer lacking the decision keys) the request is treated as not approved:
\* status rejected, field_created false and create_custom_field never called,
\* even with zero duplicates and field creation enabled.
C12_LLMFailureRejects ==
    LLMFailed =>
        /\ avLoc.ai_result.fallback_reason \in
              {"timeout", "connection_error", "error", "empty_response", "invalid_json",
               "invalid_structure", "missing_fields"}
        /\ CountCalls(avCalls, {"create_custom_field"}) = 0
        /\ avPc = "done"
        /\ avResult.status = "rejected"
        /\ avResult.field_created = "false"

C12_Witness ==
    /\ LLMFailed
    /\ avLoc.ai_result.fallback_reason = "missing_fields"
    /\ avLoc.duplicates_found = 0
    /\ avLoc.creation_flag = "true"
    /\ avResult.status = "rejected"

NoFieldNamed(fields, name) == \A i \in 1..Len(fields) : Lower(fields[i].name) # Lower(name)

\* C4: a modify request whose field matches no fetched custom field (names
\* compared case-insensitively) returns rejected / field_not_found_for_modify,
\* posts exactly one comment (the field does not exist) and makes no context
\* fetch, no option write and no field-creation call.
C4_ModifyOfMissingField ==
    (/\ avPc = "done"
     /\ avLoc.operation_type \in OpWords
     /\ avLoc.field_name # <<>>
     /\ CountCalls(avCalls, {"get_all_custom_fields"}) = 1
     /\ NoFieldNamed(avLoc.all_fields, avLoc.field_name)) =>
        /\ avResult.status = "rejected"
        /\ avResult.reason = "field_not_found_for_modify"
        /\ CountCalls(avCalls, {"add_comment"}) = 1
        /\ avCalls[Len(avCalls)] = Call("add_comment", NoneId, "field_not_found")
        /\ CountCalls(avCalls, {"GET_context"} \cup OptionWriteOps \cup CreationOps) = 0

C4_Witness ==
    /\ avPc = "done"
    /\ avLoc.all_fields # <<>>
    /\ avResult.reason = "field_not_found_for_modify"

(***************************************************************************)
(* Properties of analyze_blast_radius                                      *)
(***************************************************************************)

BrReturned == brOut # NoResult /\ brOut.kind = "dict"

\* positions of the contexts whose extracted project-id list contains the target
BrApplicableIdx ==
    {i \in 1..Len(brContexts) : Str(brTarget) \in Range(_ctx_project_ids(brContexts[i]))}

\* the number of projects associated with a context
NumProjects(ctx) == Cardinality(Range(_ctx_project_ids(ctx)))

\* C5: whenever at least one context's extracted project-id list contains the
\* target project id, the selected context is an applicable one with the fewest
\* associated projects, ties broken by original list order, and never a global
\* context (empty project list).
C5_SelectsFewestProjects ==
    (BrReturned /\ BrApplicableIdx # {}) =>
        \E i \in BrApplicableIdx :
            /\ brOut.selected_context_id = i
            /\ _ctx_project_ids(brContexts[i]) # <<>>
            /\ \A j \in BrApplicableIdx :
                  \/ NumProjects(brContexts[j]) > NumProjects(brContexts[i])
                  \/ NumProjects(brContexts[j]) = NumProjects(brContexts[i]) /\ j >= i

\* C6: analyze_blast_radius fails closed: the result is CRITICAL with no selected
\* context when the field has no contexts at all, and when more than one context
\* exists, none contains the target project and none carries a non-empty mapping.
C6_FailsClosed ==
    (brOut # NoResult /\ brTarget # NoneId /\
       (\/ brContexts = <<>>
        \/ /\ Len(brContexts) > 1
           /\ BrApplicableIdx = {}
           /\ \A i \in 1..Len(brContexts) : _ctx_project_ids(brContexts[i]) = <<>>)) =>
        /\ brOut.kind = "dict"
        /\ brOut.risk_level = "CRITICAL"
        /\ brOut.selected_context_id = NoneId

C6_Witness ==
    /\ BrReturned
    /\ Len(brContexts) > 1
    /\ \E i \in 1..Len(brContexts) : brContexts[i].flag = "true"
    /\ brOut.risk_level = "CRITICAL"

\* the claim's notion of a global context
IsGlobalByClaim(ctx) ==
    \/ ctx.flag = "true"
    \/ ctx.flag = "absent" /\ _ctx_project_ids(ctx) = <<>>

\* C7: a global selected context (flag true, or no flag and an empty project
\* list) gives GLOBAL; otherwise the number n of distinct project ids of the
\* selected context decides: n <= 1 LOW, n = 2 MEDIUM, n >= 3 HIGH, and
\* project_count is n.
C7_Classification ==
    (BrReturned /\ brOut.selected_context_id # NoneId) =>
        LET sel == brContexts[brOut.selected_context_id]
            n   == NumProjects(sel)
        IN  /\ IsGlobalByClaim(sel) => brOut.risk_level = "GLOBAL" /\ brOut.is_global
            /\ ~IsGlobalByClaim(sel) =>
                  /\ ~brOut.is_global
                  /\ brOut.project_count = n
                  /\ n <= 1 => brOut.risk_level = "LOW"
                  /\ n = 2 => brOut.risk_level = "MEDIUM"
                  /\ n >= 3 => brOut.risk_level = "HIGH"

C7_Witness ==
    /\ BrReturned
    /\ Len(brContexts) = 1
    /\ brOut.risk_level = "HIGH"
    /\ brOut.project_count = 3

(***************************************************************************)
(* app/auth.py and app/main.py: the four POST webhook routes               *)
(*                                                                         *)
(* A header or secret value is a sequence of characters; "e9" stands for a *)
(* character outside ASCII (a header byte 0xE9 is decoded as latin-1).     *)
(***************************************************************************)

MaxSecretLen == 2

Chars == {"a", "b", "e9"}

IsAscii(str) == \A i \in 1..Len(str) : str[i] # "e9"

Strings == UNION { [1..n -> Chars] : n \in 0..MaxSecretLen }

\* a value that may be missing: the header of a request, the secret of the configuration
Given(str) == [present |-> TRUE, value |-> str]
Missing == [present |-> FALSE, value |-> <<>>]

\* x.get(...) or "": a missing value reads as the empty string
OrEmpty(v) == IF v.present THEN v.value ELSE <<>>

\* hmac.compare_digest on two str: TypeError unless both are ASCII
compare_digest(a, b) ==
    IF ~IsAscii(a) \/ ~IsAscii(b) THEN "TypeError"
    ELSE IF a = b THEN "True" ELSE "False"

\* verify_header_secret(request)
verify_header_secret(request, secret) ==
    compare_digest(OrEmpty(request.header), OrEmpty(secret))

WhResponse(status, passed, calls) ==
    [kind |-> "response", status |-> status, passed_auth |-> passed, handler_calls |-> calls]

\* l1_triage_webhook, admin_validator_webhook, jira_architect_webhook (lines 26-120):
\* an exception of verify_header_secret is outside the try and becomes a 500
IssueRoute(request, secret) ==
    LET v == verify_header_secret(request, secret)
    IN  IF v = "TypeError" THEN WhResponse(500, FALSE, 0)
        ELSE IF v = "False" THEN WhResponse(401, FALSE, 0)
        ELSE IF request.body = "invalid_json" THEN WhResponse(500, TRUE, 0)
        ELSE IF request.body = "no_issue_key" THEN WhResponse(400, TRUE, 0)
        ELSE IF request.handler = "raises" THEN WhResponse(500, TRUE, 1)
        ELSE WhResponse(200, TRUE, 1)

\* hygiene_webhook (lines 123-141): an unparsable body is read as {}
HygieneRoute(request, secret) ==
    LET v == verify_header_secret(request, secret)
    IN  IF v = "TypeError" THEN WhResponse(500, FALSE, 0)
        ELSE IF v = "False" THEN WhResponse(401, FALSE, 0)
        ELSE IF request.handler = "raises" THEN WhResponse(500, TRUE, 1)
        ELSE WhResponse(200, TRUE, 1)

\* l1_triage_webhook and admin_validator_webhook of the flat main.py (lines
\* 23-82): the HTTPException(400) is raised inside the try, whose only handler
\* is `except Exception`, and leaves it as a 500
FlatIssueRoute(request, secret) ==
    LET v == verify_header_secret(request, secret)
    IN  IF v = "TypeError" THEN WhResponse(500, FALSE, 0)
        ELSE IF v = "False" THEN WhResponse(401, FALSE, 0)
        ELSE IF request.body = "invalid_json" THEN WhResponse(500, TRUE, 0)
        ELSE IF request.body = "no_issue_key" THEN WhResponse(500, TRUE, 0)
        ELSE IF request.handler = "raises" THEN WhResponse(500, TRUE, 1)
        ELSE WhResponse(200, TRUE, 1)

WhRoutes == {"l1-triage-bot", "admin-validator", "jira-architect", "hygiene"}

\* the two agent routes of the flat main.py
FlatRoutes == {"flat/l1-triage-bot", "flat/admin-validator"}

WhRequests ==
    { [route |-> r, header |-> h, body |-> b, handler |-> o] :
        r \in WhRoutes \cup FlatRoutes,
        h \in {Missing} \cup {Given(x) : x \in Strings},
        b \in {"invalid_json", "no_issue_key", "issue_key"},
        o \in {"returns", "raises"} }

WhInit ==
    /\ whSecret \in {Missing} \cup {Given(x) : x \in Strings}
    /\ whReq \in WhRequests
    /\ whResp = NoResult
    \* the other components are not in use
    /\ brContexts = <<>> /\ brTarget = NoneId /\ brOut = NoResult
    /\ avPc = "idle" /\ avReq = NoResult /\ avLoc = NoResult /\ avCalls = <<>> /\ avResult = NoResult
    /\ hyEngine = NoResult /\ hyPayload = NoResult /\ hyOut = NoResult
    /\ stRule = NoResult /\ stJira = NoResult /\ stOut = NoResult
    /\ wvRule = NoResult /\ wvJira = NoResult /\ wvOut = NoResult
    /\ olPrompt = NoResult /\ olReply = NoResult /\ olOut = NoResult
    /\ l1Ticket = NoResult /\ l1Out = NoResult
    /\ arComments = <<>> /\ arRuns = 0 /\ arLast = NoResult
    /\ hhPayload = NoResult /\ hhDefault = NoResult /\ hhOut = NoResult
    /\ srRule = NoResult /\ srPayload = NoResult /\ srOut = NoResult
    /\ ruRule = NoResult /\ ruJira = NoResult /\ ruOut = NoResult
    /\ mlPc = "idle" /\ mlLoc = NoResult
    /\ alLabels = <<>> /\ alCalls = <<>> /\ alOut = NoResult
    /\ caPc = NoResult /\ caSeen = NoResult /\ caComments = <<>>

WhServe(route, response) ==
    /\ whResp = NoResult
    /\ whReq.route = route
    /\ whResp' = response
    /\ UNCHANGED <<whSecret, whReq>>
    /\ UNCHANGED <<brVars, avVars, hyVars, stVars, wvVars, olVars, l1Vars, arVars, hhVars,
                 srVars, ruVars, mlVars, alVars, caVars>>

l1_triage_webhook == WhServe("l1-triage-bot", IssueRoute(whReq, whSecret))

admin_validator_webhook == WhServe("admin-validator", IssueRoute(whReq, whSecret))

jira_architect_webhook == WhServe("jira-architect", IssueRoute(whReq, whSecret))

hygiene_webhook == WhServe("hygiene", HygieneRoute(whReq, whSecret))

flat_l1_triage_webhook == WhServe("flat/l1-triage-bot", FlatIssueRoute(whReq, whSecret))

flat_admin_validator_webhook == WhServe("flat/admin-validator", FlatIssueRoute(whReq, whSecret))

WhNext ==
    \/ l1_triage_webhook
    \/ admin_validator_webhook
    \/ jira_architect_webhook
    \/ hygiene_webhook
    \/ flat_l1_triage_webhook
    \/ flat_admin_validator_webhook

SpecWebhook == WhInit /\ [][WhNext]_vars

\* C8: on each of the four POST routes handling proceeds past authentication if
\* and only if the x-webhook-secret header equals the configured secret exactly
\* (unset secret and absent header count as the empty string); for any other
\* header value the response is 401 and no handler is invoked.
C8_SecretGate ==
    whResp # NoResult =>
        LET same == OrEmpty(whReq.header) = OrEmpty(whSecret)
        IN  /\ whResp.passed_auth <=> same
            /\ ~same => whResp.status = 401 /\ whResp.handler_calls = 0

\* C18: on the l1-triage-bot, admin-validator and jira-architect routes, in
\* both app/main.py and the flat main.py, an authenticated request whose JSON
\* body has no non-empty issue key gets a 400 response and the agent is never
\* invoked; only an exception raised while parsing or handling is converted
\* to a 500 response.
C18_MissingKeyIs400 ==
    (whResp # NoResult /\ whReq.route # "hygiene" /\ whResp.passed_auth) =>
        /\ whReq.body = "no_issue_key" => (whResp.status = 400 /\ whResp.handler_calls = 0)
        /\ whResp.status = 500 =>
              \/ whReq.body = "invalid_json"
              \/ whReq.body = "issue_key" /\ whReq.handler = "raises" /\ whResp.handler_calls = 1

(***************************************************************************)
(* workflows/hygiene_engine.py: _build_rules and HygieneEngine.process     *)
(***************************************************************************)

RuleNames == {"StaleTicketRule", "MissingFieldsRule", "WorkflowValidatorRule", "DuplicateCustomFieldsRule"}

\* _build_rules with the two first rules appended in the other order
_build_rules_MissingFirst(flags) ==
    (IF flags.enable_missing_fields THEN <<"MissingFieldsRule">> ELSE <<>>)
    \o (IF flags.enable_stale THEN <<"StaleTicketRule">> ELSE <<>>)
    \o (IF flags.enable_workflow_validator THEN <<"WorkflowValidatorRule">> ELSE <<>>)
    \o (IF flags.enable_duplicate_check THEN <<"DuplicateCustomFieldsRule">> ELSE <<>>)

\* _build_rules: the enabled rules, by name, in the order they are appended
_build_rules(flags) ==
    (IF flags.enable_stale THEN <<"StaleTicketRule">> ELSE <<>>)
    \o (IF flags.enable_missing_fields THEN <<"MissingFieldsRule">> ELSE <<>>)
    \o (IF flags.enable_workflow_validator THEN <<"WorkflowValidatorRule">> ELSE <<>>)
    \o (IF flags.enable_duplicate_check THEN <<"DuplicateCustomFieldsRule">> ELSE <<>>)

\* the accepted event types, with the stale rule also accepting issue_created
RuleEvents_StaleOnCreate(rule) ==
    CASE rule = "StaleTicketRule" -> {"issue_created", "issue_updated", "scheduled_sweep"}
      [] rule = "MissingFieldsRule" -> {"issue_created", "issue_updated", "scheduled_sweep"}
      [] rule = "WorkflowValidatorRule" -> {"issue_created", "issue_updated", "scheduled_sweep"}
      [] rule = "DuplicateCheckRule" -> {"issue_created", "issue_updated"}
      [] rule = "DuplicateCustomFieldsRule" -> {"scheduled_sweep", "manual_report"}

\* the event types each rule's should_run accepts
RuleEvents(rule) ==
    CASE rule = "StaleTicketRule" -> {"issue_updated", "scheduled_sweep"}
      [] rule = "MissingFieldsRule" -> {"issue_created", "issue_updated", "scheduled_sweep"}
      [] rule = "WorkflowValidatorRule" -> {"issue_created", "issue_updated", "scheduled_sweep"}
      [] rule = "DuplicateCheckRule" -> {"issue_created", "issue_updated"}
      [] rule = "DuplicateCustomFieldsRule" -> {"scheduled_sweep", "manual_report"}

\* str.lower() on the event types that occur
LowerEvent(e) ==
    CASE e = "Issue_Updated" -> "issue_updated"
      [] e = "SCHEDULED_SWEEP" -> "scheduled_sweep"
      [] e = "ISSUE_CREATED" -> "issue_created"
      [] e = "Manual_Report" -> "manual_report"
      [] e = "Deployment" -> "deployment"
      [] OTHER -> e

\* (payload or {}).get("eventType", ""): "" for None, {} and a missing key;
\* "null" is the key present with the value None
HyPayloads ==
    {"None", "{}", "null", "scheduled_sweep", "SCHEDULED_SWEEP", "Issue_Updated",
     "issue_created", "manual_report", "deployment"}

EventTypeOf(payload) == IF payload \in {"None", "{}"} THEN "" ELSE payload

\* rule.should_run(payload): None.lower() raises AttributeError
should_run(rule, payload) ==
    IF EventTypeOf(payload) = "null" THEN "raises"
    ELSE IF LowerEvent(EventTypeOf(payload)) \in RuleEvents(rule) THEN "True" ELSE "False"

HyResult(rule, status, from, error) == [rule |-> rule, status |-> status, from |-> from, error |-> error]

\* the result recorded for one rule by a loop without the try/except
RuleResult_NoCatch(rule, payload, behaviour) ==
    IF should_run(rule, payload) = "raises" THEN HyResult(rule, "raises", "engine", "AttributeError")
    ELSE IF should_run(rule, payload) = "False" THEN HyResult(rule, "skipped", "engine", "")
    ELSE HyResult(rule, behaviour, "execute", "")

\* lines 146-156: the result recorded for one rule; behaviour is what the
\* rule's execute does, the status of the dict it returns or "raises"
RuleResult(rule, payload, behaviour) ==
    IF should_run(rule, payload) = "raises" THEN HyResult(rule, "error", "engine", "AttributeError")
    ELSE IF should_run(rule, payload) = "False" THEN HyResult(rule, "skipped", "engine", "")
    ELSE IF behaviour = "raises" THEN HyResult(rule, "error", "engine", "execute failed")
    ELSE HyResult(rule, behaviour, "execute", "")

\* the calls made on one rule
RuleCalls(rule, payload) ==
    IF should_run(rule, payload) = "True"
    THEN << <<rule, "should_run">>, <<rule, "execute">> >>
    ELSE << <<rule, "should_run">> >>

\* out["rules"][name] = result on an insertion-ordered dict
DictPut(d, name, result) ==
    IF \E i \in 1..Len(d) : d[i].rule = name
    THEN [i \in 1..Len(d) |-> IF d[i].rule = name THEN result ELSE d[i]]
    ELSE Append(d, result)

RECURSIVE ProcessRules(_, _, _, _, _)
\* lines 145-158: the loop over self.rules
ProcessRules(rules, payload, behaviours, out, calls) ==
    IF rules = <<>> THEN [kind |-> "report", raised |-> FALSE, rules |-> out, calls |-> calls]
    ELSE ProcessRules(Tail(rules), payload, behaviours,
                      DictPut(out, Head(rules), RuleResult(Head(rules), payload, behaviours[Head(rules)])),
                      calls \o RuleCalls(Head(rules), payload))

\* HygieneEngine(...).process(payload)
HygieneProcess(engine, payload) ==
    ProcessRules(_build_rules(engine.flags), payload, engine.behaviours, <<>>, <<>>)

HyFlags ==
    [enable_stale : BOOLEAN, enable_missing_fields : BOOLEAN,
     enable_workflow_validator : BOOLEAN, enable_duplicate_check : BOOLEAN]

\* what a rule's execute does: the status of the dict it returns ("dry_run"
\* when the rule has no Jira client), or "raises"
ExecuteBehaviours == {"ok", "error", "dry_run", "raises"}

HyInit ==
    /\ hyEngine \in [flags : HyFlags, behaviours : [RuleNames -> ExecuteBehaviours]]
    /\ hyPayload \in HyPayloads
    /\ hyOut = NoResult
    \* the other components are not in use
    /\ brContexts = <<>> /\ brTarget = NoneId /\ brOut = NoResult
    /\ avPc = "idle" /\ avReq = NoResult /\ avLoc = NoResult /\ avCalls = <<>> /\ avResult = NoResult
    /\ whSecret = NoResult /\ whReq = NoResult /\ whResp = NoResult
    /\ stRule = NoResult /\ stJira = NoResult /\ stOut = NoResult
    /\ wvRule = NoResult /\ wvJira = NoResult /\ wvOut = NoResult
    /\ olPrompt = NoResult /\ olReply = NoResult /\ olOut = NoResult
    /\ l1Ticket = NoResult /\ l1Out = NoResult
    /\ arComments = <<>> /\ arRuns = 0 /\ arLast = NoResult
    /\ hhPayload = NoResult /\ hhDefault = NoResult /\ hhOut = NoResult
    /\ srRule = NoResult /\ srPayload = NoResult /\ srOut = NoResult
    /\ ruRule = NoResult /\ ruJira = NoResult /\ ruOut = NoResult
    /\ mlPc = "idle" /\ mlLoc = NoResult
    /\ alLabels = <<>> /\ alCalls = <<>> /\ alOut = NoResult
    /\ caPc = NoResult /\ caSeen = NoResult /\ caComments = <<>>

process ==
    /\ hyOut = NoResult
    /\ hyOut' = HygieneProcess(hyEngine, hyPayload)
    /\ UNCHANGED <<hyEngine, hyPayload>>
    /\ UNCHANGED <<brVars, avVars, whVars, stVars, wvVars, olVars, l1Vars, arVars, hhVars,
                 srVars, ruVars, mlVars, alVars, caVars>>

SpecHygiene == HyInit /\ [][process]_vars

RegistrationOrder ==
    <<"StaleTicketRule", "MissingFieldsRule", "WorkflowValidatorRule", "DuplicateCustomFieldsRule">>

HyEnabled(rule) ==
    CASE rule = "StaleTicketRule" -> hyEngine.flags.enable_stale
      [] rule = "MissingFieldsRule" -> hyEngine.flags.enable_missing_fields
      [] rule = "WorkflowValidatorRule" -> hyEngine.flags.enable_workflow_validator
      [] rule = "DuplicateCustomFieldsRule" -> hyEngine.flags.enable_duplicate_check

\* the registered rules in registration order
HyRegistered == SelectSeq(RegistrationOrder, HyEnabled)

\* the rules in the order their should_run was called
HyVisited ==
    LET c == SelectSeq(hyOut.calls, LAMBDA x : x[2] = "should_run")
    IN  [i \in 1..Len(c) |-> c[i][1]]

\* C9: process never raises and records exactly one result per registered rule,
\* keyed by rule name, visiting and reporting the rules in registration order:
\* the execute result when the predicate is true, skipped when it is false,
\* error with the exception message when the predicate or execute raises; a
\* failing rule never stops the later rules.
C9_OneResultPerRule ==
    hyOut # NoResult =>
        /\ ~hyOut.raised
        /\ HyVisited = HyRegistered
        /\ Len(hyOut.rules) = Len(HyRegistered)
        /\ \A i \in 1..Len(HyRegistered) :
              LET rule == HyRegistered[i]
                  r    == hyOut.rules[i]
                  pred == should_run(rule, hyPayload)
                  exec == hyEngine.behaviours[rule]
              IN  /\ r.rule = rule
                  /\ (pred = "True" /\ exec # "raises") => r.from = "execute" /\ r.status = exec
                  /\ pred = "False" => r.status = "skipped"
                  /\ (pred = "raises" \/ (pred = "True" /\ exec = "raises")) =>
                        r.status = "error" /\ r.error # ""
                  /\ (pred = "True") <=> (\E k \in 1..Len(hyOut.calls) : hyOut.calls[k] = <<rule, "execute">>)

C9_Witness ==
    /\ hyOut # NoResult
    /\ Len(hyOut.rules) = 4
    /\ hyOut.rules[1].status = "error"
    /\ hyOut.rules[1].error = "execute failed"
    /\ hyOut.rules[2].status = "ok"
    /\ hyOut.rules[4].status = "skipped"

(***************************************************************************)
(* rules/stale_tickets.py: StaleTicketRule against a search backend that   *)
(* serves startAt/maxResults windows (tests/unit-local FakeJira)           *)
(***************************************************************************)

MaxIssues == 3
MaxBatchArg == 101

BatchCap == 100

\* self.max_results = max(1, max_results)
RuleMaxResults(rule) == Max2(1, rule.max_results)

\* self.batch_size = max(1, min(batch_size, 100))
RuleBatchSize(rule) == Max2(1, Min2(rule.batch_size, BatchCap))

\* the backend's issues, keys ABC-1 .. ABC-n in search order
Issues(jira) == [i \in 1..jira.n |-> i]

\* search_issues(jql, start_at, max_results): the window
\* issues[start_at : start_at + max_results] and total = len(issues); the
\* backend's search_fault makes the call numbered `at` return an error dict
\* without "issues", or raise
search_issues(jira, start_at, max_results, callNo) ==
    IF jira.search_fault.at = callNo
    THEN [kind |-> jira.search_fault.how, issues |-> <<>>, total |-> 0]
    ELSE [kind |-> "page",
          issues |-> SubSeq(Issues(jira), start_at + 1, Min2(start_at + max_results, jira.n)),
          total |-> jira.n]

\* start_at advanced one past the page that was read
NextStartAt_PastPage(start_at, got) == start_at + got + 1

\* start_at += got
NextStartAt(start_at, got) == start_at + got

RECURSIVE SearchLoop(_, _, _, _, _, _)
\* the while loop of _search_all
SearchLoop(rule, jira, start_at, remaining, results, calls) ==
    IF remaining <= 0 THEN [raised |-> FALSE, results |-> results, calls |-> calls]
    ELSE
        LET limit  == Min2(RuleBatchSize(rule), remaining)
            resp   == search_issues(jira, start_at, limit, Len(calls) + 1)
            calls2 == Append(calls, <<"search", start_at, limit>>)
            got    == Len(resp.issues)
        IN  IF resp.kind = "raises" THEN [raised |-> TRUE, results |-> results, calls |-> calls2]
            ELSE IF resp.kind = "error" \/ resp.issues = <<>>
            THEN [raised |-> FALSE, results |-> results, calls |-> calls2]
            ELSE IF NextStartAt(start_at, got) >= resp.total
            THEN [raised |-> FALSE, results |-> results \o resp.issues, calls |-> calls2]
            ELSE SearchLoop(rule, jira, NextStartAt(start_at, got), remaining - got,
                            results \o resp.issues, calls2)

\* _search_all(jql)
_search_all(rule, jira) == SearchLoop(rule, jira, 0, RuleMaxResults(rule), <<>>, <<>>)

\* what one write call on the backend does: "ok", "error" (a dict with an
\* error key is returned) or "raises"
WriteOutcome(jira, op, key) ==
    IF jira.write_fault.op = op /\ jira.write_fault.key = key THEN jira.write_fault.how ELSE "ok"

RECURSIVE WriteLoop(_, _, _, _, _, _)
\* the for loop of _maybe_write_actions
WriteLoop(rule, jira, keys, comments, labels, calls) ==
    IF keys = <<>> THEN [comments |-> comments, labels |-> labels, calls |-> calls]
    ELSE
        LET k  == Head(keys)
            c  == rule.add_comment
            l  == rule.add_label # "None"
            cw == IF c /\ WriteOutcome(jira, "comment", k) # "raises" THEN 1 ELSE 0
            lw == IF l /\ WriteOutcome(jira, "label", k) # "raises" THEN 1 ELSE 0
        IN  WriteLoop(rule, jira, Tail(keys), comments + cw, labels + lw,
                      calls \o (IF c THEN << <<"comment", k>> >> ELSE <<>>)
                            \o (IF l THEN << <<"label", k>> >> ELSE <<>>))

\* _maybe_write_actions(keys)
_maybe_write_actions(rule, jira, keys) == WriteLoop(rule, jira, keys, 0, 0, <<>>)

StResult(status, keys, comments, labels, calls) ==
    [kind |-> "result", rule |-> "StaleTicketRule", status |-> status,
     issues_flagged |-> Len(keys), issue_keys |-> keys,
     actions |-> [comments |-> comments, labels |-> labels], calls |-> calls]

\* StaleTicketRule.execute(data)
StaleExecute(rule, jira) ==
    IF ~rule.enabled THEN StResult("skipped", <<>>, 0, 0, <<>>)
    ELSE IF ~rule.has_jira THEN StResult("dry_run", <<>>, 0, 0, <<>>)
    ELSE
        LET found == _search_all(rule, jira)
            acts  == _maybe_write_actions(rule, jira, found.results)
        IN  IF found.raised THEN StResult("error", <<>>, 0, 0, found.calls)
            ELSE StResult("ok", found.results, acts.comments, acts.labels, found.calls \o acts.calls)

NoFault == [op |-> "none", key |-> 0, how |-> "ok"]

WriteFaults(n) == {NoFault} \cup [op : {"comment", "label"}, key : 1..n, how : {"error", "raises"}]

NoSearchFault == [at |-> 0, how |-> "page"]

SearchFaults == {NoSearchFault, [at |-> 1, how |-> "error"], [at |-> 2, how |-> "error"], [at |-> 2, how |-> "raises"]}

StRules ==
    [enabled : BOOLEAN, has_jira : BOOLEAN, add_comment : BOOLEAN, add_label : {"None", "stale"},
     max_results : {0, 2, 1000}, batch_size : 0..MaxBatchArg]

StInit ==
    /\ stRule \in StRules
    /\ \E n \in 0..MaxIssues :
          stJira \in [n : {n}, search_fault : SearchFaults, write_fault : WriteFaults(n)]
    /\ stOut = NoResult
    \* the other components are not in use
    /\ brContexts = <<>> /\ brTarget = NoneId /\ brOut = NoResult
    /\ avPc = "idle" /\ avReq = NoResult /\ avLoc = NoResult /\ avCalls = <<>> /\ avResult = NoResult
    /\ whSecret = NoResult /\ whReq = NoResult /\ whResp = NoResult
    /\ hyEngine = NoResult /\ hyPayload = NoResult /\ hyOut = NoResult
    /\ wvRule = NoResult /\ wvJira = NoResult /\ wvOut = NoResult
    /\ olPrompt = NoResult /\ olReply = NoResult /\ olOut = NoResult
    /\ l1Ticket = NoResult /\ l1Out = NoResult
    /\ arComments = <<>> /\ arRuns = 0 /\ arLast = NoResult
    /\ hhPayload = NoResult /\ hhDefault = NoResult /\ hhOut = NoResult
    /\ srRule = NoResult /\ srPayload = NoResult /\ srOut = NoResult
    /\ ruRule = NoResult /\ ruJira = NoResult /\ ruOut = NoResult
    /\ mlPc = "idle" /\ mlLoc = NoResult
    /\ alLabels = <<>> /\ alCalls = <<>> /\ alOut = NoResult
    /\ caPc = NoResult /\ caSeen = NoResult /\ caComments = <<>>

execute ==
    /\ stOut = NoResult
    /\ stOut' = StaleExecute(stRule, stJira)
    /\ UNCHANGED <<stRule, stJira>>
    /\ UNCHANGED <<brVars, avVars, whVars, hyVars, wvVars, olVars, l1Vars, arVars, hhVars,
                 srVars, ruVars, mlVars, alVars, caVars>>

SpecStale == StInit /\ [][execute]_vars

StSearchCalls == SelectSeq(stOut.calls, LAMBDA c : c[1] = "search")

StWriteCalls == SelectSeq(stOut.calls, LAMBDA c : c[1] # "search")

\* C10: against a backend serving startAt/maxResults windows over N issues with
\* a total count, N not above max_results, for every batch size from 1 to 100
\* the rule requests pages of at most batch_size, flags every issue exactly once
\* in search order (issues_flagged = N), and with add_comment and add_label set
\* writes one comment and then one label per flagged key, reporting
\* comments = N and labels = N.
C10_PaginatesAndWrites ==
    ( /\ stOut # NoResult
      /\ stRule.enabled /\ stRule.has_jira
      /\ stJira.search_fault = NoSearchFault /\ stJira.write_fault = NoFault
      /\ stJira.n <= RuleMaxResults(stRule)
      /\ stRule.batch_size \in 1..100 ) =>
        /\ stOut.status = "ok"
        /\ \A i \in 1..Len(StSearchCalls) : StSearchCalls[i][3] \in 1..stRule.batch_size
        /\ stOut.issue_keys = Issues(stJira)
        /\ stOut.issues_flagged = stJira.n
        /\ (stRule.add_comment /\ stRule.add_label = "stale") =>
              /\ Len(StWriteCalls) = 2 * stJira.n
              /\ \A k \in 1..stJira.n :
                    /\ StWriteCalls[2 * k - 1] = <<"comment", k>>
                    /\ StWriteCalls[2 * k] = <<"label", k>>
              /\ stOut.actions = [comments |-> stJira.n, labels |-> stJira.n]

C10_Witness ==
    /\ stOut # NoResult
    /\ stRule.batch_size = 2
    /\ stJira.n = 3
    /\ stJira.search_fault = NoSearchFault /\ stJira.write_fault = NoFault
    /\ Len(StSearchCalls) = 2
    /\ stOut.issue_keys = <<1, 2, 3>>
    /\ stOut.actions = [comments |-> 3, labels |-> 3]

(***************************************************************************)
(* WorkflowValidatorRule (rules/workflow_validator.py)                     *)
(***************************************************************************)
\* Field values are named by their Python value: "absent" (no such key),
\* "None", "empty_str", "empty_list", "empty_map", "zero" (the number 0),
\* "three" (the number 3), "list" (a non-empty list) and "user" (a non-empty
\* object).  The backend is the one of the stale-ticket rule: jira.n issues
\* with keys 1..n, one search fault and one write fault, and jira.fields[k]
\* the fields of issue k.

MaxWvIssues == 2

\* bool(v) is False
Falsy(v) == v \in {"absent", "None", "empty_str", "empty_list", "empty_map", "zero"}

\* val in (None, "", [], {}) with every falsy value taken as missing
InMissingValues_Falsy(val) == Falsy(val)

\* val in (None, "", [], {}), val = fields.get(name)
InMissingValues(val) == val \in {"absent", "None", "empty_str", "empty_list", "empty_map"}

\* self.require_fields = [f.strip() for f in (require_fields or []) if f and f.strip()]
RuleRequireFields(rule) == SelectSeq(rule.require_fields, LAMBDA f : f \notin {"", " "})

\* _violations_for_issue(fields)
_violations_for_issue(rule, fields) ==
    LET RECURSIVE Loop(_, _)
        Loop(names, violations) ==
            IF names = <<>> THEN violations
            ELSE Loop(Tail(names),
                      IF InMissingValues(fields[Head(names)])
                      THEN Append(violations, <<"Missing field", Head(names)>>)
                      ELSE violations)
    IN  Loop(RuleRequireFields(rule),
             IF rule.require_assignee /\ Falsy(fields["assignee"])
             THEN << "Missing assignee" >> ELSE <<>>)

\* _search_all(jql) of the workflow rule: an error dict or a malformed
\* response raises RuntimeError
WvSearchAll(rule, jira) ==
    LET RECURSIVE Loop(_, _, _, _)
        Loop(start_at, remaining, results, calls) ==
            IF remaining <= 0 THEN [raised |-> FALSE, results |-> results, calls |-> calls]
            ELSE
                LET limit  == Min2(RuleBatchSize(rule), remaining)
                    resp   == search_issues(jira, start_at, limit, Len(calls) + 1)
                    calls2 == Append(calls, <<"search", start_at, limit>>)
                    got    == Len(resp.issues)
                IN  IF resp.kind \in {"raises", "error"}
                    THEN [raised |-> TRUE, results |-> results, calls |-> calls2]
                    ELSE IF resp.issues = <<>>
                    THEN [raised |-> FALSE, results |-> results, calls |-> calls2]
                    ELSE IF start_at + got >= resp.total
                    THEN [raised |-> FALSE, results |-> results \o resp.issues, calls |-> calls2]
                    ELSE Loop(start_at + got, remaining - got, results \o resp.issues, calls2)
    IN  Loop(0, RuleMaxResults(rule), <<>>, <<>>)

\* _maybe_write_actions(keys, per_issue) of the workflow rule
WvWriteActions(rule, jira, keys) ==
    LET RECURSIVE Loop(_, _, _, _)
        Loop(ks, comments, labels, calls) ==
            IF ks = <<>> THEN [comments |-> comments, labels |-> labels, calls |-> calls]
            ELSE
                LET k  == Head(ks)
                    c  == rule.add_comment
                    l  == rule.add_label # "None"
                    cw == IF c /\ WriteOutcome(jira, "comment", k) # "raises" THEN 1 ELSE 0
                    lw == IF l /\ WriteOutcome(jira, "label", k) # "raises" THEN 1 ELSE 0
                IN  Loop(Tail(ks), comments + cw, labels + lw,
                         calls \o (IF c THEN << <<"comment", k>> >> ELSE <<>>)
                               \o (IF l THEN << <<"label", k>> >> ELSE <<>>))
    IN  Loop(keys, 0, 0, <<>>)

\* WorkflowValidatorRule.execute(data); `searched` keeps the keys the search
\* returned and `calls` the backend calls made
WorkflowExecute(rule, jira) ==
    LET Res(status, searched, keys, vios, acts, calls) ==
            [kind |-> "result", rule |-> "WorkflowValidatorRule", status |-> status,
             issues_flagged |-> Len(keys), issue_keys |-> keys, violations |-> vios,
             actions |-> acts, searched |-> searched, calls |-> calls]
        none == [comments |-> 0, labels |-> 0]
    IN  IF ~rule.enabled THEN Res("skipped", <<>>, <<>>, <<>>, none, <<>>)
        ELSE IF ~rule.has_jira THEN Res("dry_run", <<>>, <<>>, <<>>, none, <<>>)
        ELSE
            LET found == WvSearchAll(rule, jira)
                vio(k) == _violations_for_issue(rule, jira.fields[k])
                keys  == SelectSeq(found.results, LAMBDA k : vio(k) # <<>>)
                per_issue_violations == [k \in Range(keys) |-> vio(k)]
                acts  == WvWriteActions(rule, jira, keys)
            IN  IF found.raised THEN Res("error", <<>>, <<>>, <<>>, none, found.calls)
                ELSE Res("ok", found.results, keys, per_issue_violations,
                         [comments |-> acts.comments, labels |-> acts.labels],
                         found.calls \o acts.calls)

\* the shapes of the fields of one issue
WvFieldShapes ==
    { [assignee |-> "user",      SP |-> "three",     labels |-> "list"],
      [assignee |-> "None",      SP |-> "absent",    labels |-> "empty_list"],
      [assignee |-> "empty_map", SP |-> "zero",      labels |-> "absent"],
      [assignee |-> "absent",    SP |-> "empty_str", labels |-> "list"],
      [assignee |-> "user",      SP |-> "empty_map", labels |-> "None"] }

WvRules ==
    [enabled : BOOLEAN, has_jira : BOOLEAN, require_assignee : BOOLEAN,
     require_fields : {<<>>, <<"SP">>, <<"labels", " ", "SP">>},
     add_comment : BOOLEAN, add_label : {"None", "workflow-violation"},
     max_results : {1, 1000}, batch_size : {1, 100}]

WvInit ==
    /\ wvRule \in WvRules
    /\ \E n \in 0..MaxWvIssues :
          wvJira \in [n : {n}, search_fault : {NoSearchFault, [at |-> 1, how |-> "error"], [at |-> 2, how |-> "raises"]},
                      write_fault : {NoFault, [op |-> "comment", key |-> 1, how |-> "raises"],
                                     [op |-> "label", key |-> n, how |-> "error"]},
                      fields : [1..n -> WvFieldShapes]]
    /\ wvOut = NoResult
    \* the other components are not in use
    /\ brContexts = <<>> /\ brTarget = NoneId /\ brOut = NoResult
    /\ avPc = "idle" /\ avReq = NoResult /\ avLoc = NoResult /\ avCalls = <<>> /\ avResult = NoResult
    /\ whSecret = NoResult /\ whReq = NoResult /\ whResp = NoResult
    /\ hyEngine = NoResult /\ hyPayload = NoResult /\ hyOut = NoResult
    /\ stRule = NoResult /\ stJira = NoResult /\ stOut = NoResult
    /\ olPrompt = NoResult /\ olReply = NoResult /\ olOut = NoResult
    /\ l1Ticket = NoResult /\ l1Out = NoResult
    /\ arComments = <<>> /\ arRuns = 0 /\ arLast = NoResult
    /\ hhPayload = NoResult /\ hhDefault = NoResult /\ hhOut = NoResult
    /\ srRule = NoResult /\ srPayload = NoResult /\ srOut = NoResult
    /\ ruRule = NoResult /\ ruJira = NoResult /\ ruOut = NoResult
    /\ mlPc = "idle" /\ mlLoc = NoResult
    /\ alLabels = <<>> /\ alCalls = <<>> /\ alOut = NoResult
    /\ caPc = NoResult /\ caSeen = NoResult /\ caComments = <<>>

WvExecute ==
    /\ wvOut = NoResult
    /\ wvOut' = WorkflowExecute(wvRule, wvJira)
    /\ UNCHANGED <<wvRule, wvJira>>
    /\ UNCHANGED <<brVars, avVars, whVars, hyVars, stVars, olVars, l1Vars, arVars, hhVars,
                 srVars, ruVars, mlVars, alVars, caVars>>

SpecWorkflow == WvInit /\ [][WvExecute]_vars

\* the violation list the rule is documented to build for an issue
WvExpected(k) ==
    LET f == wvJira.fields[k]
        empties == {"absent", "None", "empty_str", "empty_list", "empty_map"}
        names == SelectSeq(wvRule.require_fields, LAMBDA x : x \in {"SP", "labels"})
        fieldPart == [i \in 1..Len(SelectSeq(names, LAMBDA x : f[x] \in empties)) |->
                         <<"Missing field", SelectSeq(names, LAMBDA x : f[x] \in empties)[i]>>]
    IN  (IF wvRule.require_assignee /\ f.assignee \in empties THEN << "Missing assignee" >> ELSE <<>>)
        \o fieldPart

WvWrites == SelectSeq(wvOut.calls, LAMBDA c : c[1] # "search")

RECURSIVE WvExpectedWrites(_)
WvExpectedWrites(keys) ==
    IF keys = <<>> THEN <<>>
    ELSE (IF wvRule.add_comment THEN << <<"comment", Head(keys)>> >> ELSE <<>>)
         \o (IF wvRule.add_label # "None" THEN << <<"label", Head(keys)>> >> ELSE <<>>)
         \o WvExpectedWrites(Tail(keys))

\* C11: for each issue returned by the search the violation list is "Missing
\* assignee" (only when require_assignee is set and the assignee is absent or
\* empty) followed by "Missing field: <name>" for each configured required
\* field, in configuration order, whose value is absent, empty string, empty
\* list or empty map; an issue is flagged (in issue_keys and violations)
\* exactly when its list is non-empty, and comments and labels are written
\* only for flagged issues, one each per flagged issue.
C11_ViolationLists ==
    (wvOut # NoResult /\ wvOut.status = "ok") =>
        /\ wvOut.issue_keys = SelectSeq(wvOut.searched, LAMBDA k : WvExpected(k) # <<>>)
        /\ DOMAIN wvOut.violations = Range(wvOut.issue_keys)
        /\ \A k \in Range(wvOut.issue_keys) : wvOut.violations[k] = WvExpected(k)
        /\ wvOut.issues_flagged = Len(wvOut.issue_keys)
        /\ WvWrites = WvExpectedWrites(wvOut.issue_keys)

C11_Witness ==
    /\ wvOut # NoResult /\ wvOut.status = "ok"
    /\ wvRule.require_fields = <<"labels", " ", "SP">>
    /\ wvOut.searched = <<1, 2>>
    /\ wvOut.issue_keys = <<2>>
    /\ wvJira.fields[2].SP = "zero"
    /\ wvOut.violations[2] = << "Missing assignee", <<"Missing field", "labels">> >>
    /\ WvWrites = << <<"comment", 2>>, <<"label", 2>> >>

(***************************************************************************)
(* call_ollama as a state machine: a prompt, a reply, one call             *)
(***************************************************************************)

MaxPromptWords == 2

OlKeywords == AdminWords \cup PmWords \cup GovernanceWords

OlInit ==
    /\ olPrompt \in { ws \in SUBSET OlKeywords : Cardinality(ws) <= MaxPromptWords }
    /\ olReply \in OlReplies
    /\ olOut = NoResult
    \* the other components are not in use
    /\ brContexts = <<>> /\ brTarget = NoneId /\ brOut = NoResult
    /\ avPc = "idle" /\ avReq = NoResult /\ avLoc = NoResult /\ avCalls = <<>> /\ avResult = NoResult
    /\ whSecret = NoResult /\ whReq = NoResult /\ whResp = NoResult
    /\ hyEngine = NoResult /\ hyPayload = NoResult /\ hyOut = NoResult
    /\ stRule = NoResult /\ stJira = NoResult /\ stOut = NoResult
    /\ wvRule = NoResult /\ wvJira = NoResult /\ wvOut = NoResult
    /\ l1Ticket = NoResult /\ l1Out = NoResult
    /\ arComments = <<>> /\ arRuns = 0 /\ arLast = NoResult
    /\ hhPayload = NoResult /\ hhDefault = NoResult /\ hhOut = NoResult
    /\ srRule = NoResult /\ srPayload = NoResult /\ srOut = NoResult
    /\ ruRule = NoResult /\ ruJira = NoResult /\ ruOut = NoResult
    /\ mlPc = "idle" /\ mlLoc = NoResult
    /\ alLabels = <<>> /\ alCalls = <<>> /\ alOut = NoResult
    /\ caPc = NoResult /\ caSeen = NoResult /\ caComments = <<>>

OlCall ==
    /\ olOut = NoResult
    /\ olOut' = call_ollama(olPrompt, olReply)
    /\ UNCHANGED <<olPrompt, olReply>>
    /\ UNCHANGED <<brVars, avVars, whVars, hyVars, stVars, wvVars, l1Vars, arVars, hhVars,
                 srVars, ruVars, mlVars, alVars, caVars>>

SpecOllama == OlInit /\ [][OlCall]_vars

\* what call_ollama is documented to return for the prompt and the reply, the
\* response text counting `len` characters
OlDocumented(len) ==
    LET fallback(reason) == [kind |-> "fallback", fallback_reason |-> reason]
        admin  == olPrompt \cap {"field", "admin"} # {}
        parsed == json_loads(_clean_response_text(olReply.text))
    IN  CASE olReply.kind = "timeout"          -> fallback("timeout")
          [] olReply.kind = "connection_error" -> fallback("connection_error")
          [] olReply.kind # "text"             -> fallback("error")
          [] olReply.kind = "text" /\ len < 10 -> fallback("empty_response")
          [] olReply.kind = "text" /\ len >= 10 /\ parsed = "JSONDecodeError" -> fallback("invalid_json")
          [] olReply.kind = "text" /\ len >= 10 /\ parsed = "array" /\ admin -> fallback("invalid_structure")
          [] olReply.kind = "text" /\ len >= 10 /\ parsed = "object_plain" /\ admin -> fallback("missing_fields")
          [] OTHER -> [kind |-> "parsed", value |-> parsed]

OlAgrees(doc) ==
    /\ olOut.kind = doc.kind
    /\ doc.kind = "fallback" => olOut.fallback_reason = doc.fallback_reason
    /\ doc.kind = "parsed" => olOut.value = doc.value

\* C13 as stated: call_ollama never raises; it returns the parsed JSON value on
\* success and otherwise a fallback whose fallback_reason is fixed by the
\* failure class, empty_response being the class of replies with fewer than 10
\* non-whitespace characters.
C13_FallbackReasons ==
    olOut # NoResult =>
        OlAgrees(OlDocumented(IF olReply.kind = "text" THEN olReply.text.nonws ELSE 0))

\* C13 amended: as above, but empty_response is the class of replies whose
\* text, with leading and trailing whitespace removed, is shorter than 10
\* characters (whitespace inside the text counts).
C13_FallbackReasonsByStrippedLength ==
    olOut # NoResult =>
        OlAgrees(OlDocumented(IF olReply.kind = "text"
                              THEN olReply.text.nonws + olReply.text.inner_ws ELSE 0))

C13_Witness ==
    /\ olOut # NoResult
    /\ olReply.kind = "text"
    /\ olReply.text.nonws = 7 /\ olReply.text.inner_ws = 4
    /\ olReply.text.body = "object_plain"
    /\ olPrompt = {"governance"}
    /\ olOut = [kind |-> "parsed", value |-> "object_plain"]

\* C14 as stated: for every failure reason, a prompt containing "governance"
\* yields a fallback whose marker contains governance-bot-fallback; a prompt
\* containing "enhance", "meeting", "notes" or "story" yields one whose marker
\* contains pm-ai-fallback; all other prompts yield the generic fallback whose
\* marker contains ai-fallback.
C14_FallbackRouting ==
    (olOut # NoResult /\ olOut.kind = "fallback") =>
        /\ "governance" \in olPrompt => MarkerContains(olOut.marker, "governance-bot-fallback")
        /\ olPrompt \cap {"enhance", "meeting", "notes", "story"} # {} =>
              MarkerContains(olOut.marker, "pm-ai-fallback")
        /\ ("governance" \notin olPrompt /\ olPrompt \cap {"enhance", "meeting", "notes", "story"} = {}) =>
              (olOut.has_error /\ MarkerContains(olOut.marker, "ai-fallback"))

\* C14 amended: for every failure reason, a prompt containing "field",
\* "custom", "admin", "create" or "configuration" yields the manual-review
\* fallback, which has a plan and no marker; any other prompt containing
\* "enhance", "improve", "meeting", "notes" or "story" yields one whose marker
\* contains pm-ai-fallback; any other prompt containing "governance",
\* "violation", "cleanup" or "standard" yields one whose marker contains
\* governance-bot-fallback; all remaining prompts yield the generic fallback
\* whose marker contains ai-fallback.
C14_FallbackRoutingByPrecedence ==
    (olOut # NoResult /\ olOut.kind = "fallback") =>
        LET admin == olPrompt \cap {"field", "custom", "admin", "create", "configuration"} # {}
            pm    == olPrompt \cap {"enhance", "improve", "meeting", "notes", "story"} # {}
            gov   == olPrompt \cap {"governance", "violation", "cleanup", "standard"} # {}
        IN  /\ admin => (olOut.has_plan /\ olOut.marker = "absent")
            /\ (~admin /\ pm) => MarkerContains(olOut.marker, "pm-ai-fallback")
            /\ (~admin /\ ~pm /\ gov) => MarkerContains(olOut.marker, "governance-bot-fallback")
            /\ (~admin /\ ~pm /\ ~gov) =>
                  (olOut.has_error /\ ~olOut.has_plan /\ MarkerContains(olOut.marker, "ai-fallback"))

C14_Witness ==
    /\ olOut # NoResult /\ olOut.kind = "fallback"
    /\ olPrompt = {"governance", "field"}
    /\ olOut.fallback_reason = "invalid_structure"
    /\ olOut.marker = "absent"

(***************************************************************************)
(* llm/agents/l1_triage_bot.py: process_ticket                             *)
(*                                                                         *)
(* A ticket is the shape of issue_data["fields"] ("dict", "absent" when    *)
(* issue_data itself holds the fields, "None") and the keywords its        *)
(* summary and description contain.  The environment of one invocation is  *)
(* the outcome of the recent-tickets search, the LLM backend's reply and   *)
(* the outcome of add_comment.                                             *)
(***************************************************************************)

L1Tickets ==
    [fields : {"dict", "absent", "None"},
     words : {{}, {"create"}, {"story"}, {"cleanup"}, {"story", "governance"}}]

L1Envs ==
    [search : {"none", "similar", "error", "raises"}, reply : OlReplies, comment : {"ok", "error"}]

\* process_ticket(issue_key, issue_data, config).  `comment` is the text handed
\* to add_comment: the unavailable notice ("notice", with its reason), the
\* str() of the fallback dict ("raw_fallback"), the str() of the parsed answer
\* ("answer"), or "none" when add_comment was not called.
l1_process_ticket(ticket, env) ==
    IF ticket.fields = "None"
    THEN \* fields.get raises AttributeError: the except branch
         [kind |-> "result", success |-> FALSE, ai |-> NoResult, comment |-> "none",
          reason |-> "none", comment_result |-> "none", calls |-> <<>>]
    ELSE
        LET recent_context == IF env.search = "similar" THEN {"field"} ELSE {}
            prompt         == ticket.words \cup recent_context
            ai_response    == call_ollama(prompt, env.reply)
            notice         == ai_response.kind = "fallback" /\ ai_response.has_error
        IN  [kind |-> "result", success |-> env.comment = "ok", ai |-> ai_response,
             comment |-> IF notice THEN "notice"
                         ELSE IF ai_response.kind = "fallback" THEN "raw_fallback"
                         ELSE "answer",
             reason |-> IF notice THEN ai_response.fallback_reason ELSE "none",
             comment_result |-> env.comment,
             calls |-> <<"search_issues", "chat", "add_comment">>]

L1Init ==
    /\ l1Ticket \in L1Tickets
    /\ l1Out = NoResult
    \* the other components are not in use
    /\ brContexts = <<>> /\ brTarget = NoneId /\ brOut = NoResult
    /\ avPc = "idle" /\ avReq = NoResult /\ avLoc = NoResult /\ avCalls = <<>> /\ avResult = NoResult
    /\ whSecret = NoResult /\ whReq = NoResult /\ whResp = NoResult
    /\ hyEngine = NoResult /\ hyPayload = NoResult /\ hyOut = NoResult
    /\ stRule = NoResult /\ stJira = NoResult /\ stOut = NoResult
    /\ wvRule = NoResult /\ wvJira = NoResult /\ wvOut = NoResult
    /\ olPrompt = NoResult /\ olReply = NoResult /\ olOut = NoResult
    /\ arComments = <<>> /\ arRuns = 0 /\ arLast = NoResult
    /\ hhPayload = NoResult /\ hhDefault = NoResult /\ hhOut = NoResult
    /\ srRule = NoResult /\ srPayload = NoResult /\ srOut = NoResult
    /\ ruRule = NoResult /\ ruJira = NoResult /\ ruOut = NoResult
    /\ mlPc = "idle" /\ mlLoc = NoResult
    /\ alLabels = <<>> /\ alCalls = <<>> /\ alOut = NoResult
    /\ caPc = NoResult /\ caSeen = NoResult /\ caComments = <<>>

L1Process ==
    /\ l1Out = NoResult
    /\ \E env \in L1Envs : l1Out' = l1_process_ticket(l1Ticket, env)
    /\ UNCHANGED l1Ticket
    /\ UNCHANGED <<brVars, avVars, whVars, hyVars, stVars, wvVars, olVars, arVars, hhVars,
                 srVars, ruVars, mlVars, alVars, caVars>>

SpecL1 == L1Init /\ [][L1Process]_vars

\* C15: on any LLM failure, for every ticket summary and description, the
\* comment posted on the issue is the "AI support assistant temporarily
\* unavailable (<reason>)" notice carrying the fallback reason, never the raw
\* fallback structure, and the agent returns success true when that comment is
\* posted.
C15_NoticeOnLLMFailure ==
    (l1Out # NoResult /\ l1Out.ai # NoResult /\ l1Out.ai.kind = "fallback") =>
        /\ l1Out.comment = "notice"
        /\ l1Out.reason = l1Out.ai.fallback_reason
        /\ l1Out.calls[Len(l1Out.calls)] = "add_comment"
        /\ l1Out.comment_result = "ok" => l1Out.success

(***************************************************************************)
(* jira_architect_bot.py: process_ticket, invoked repeatedly on one issue  *)
(*                                                                         *)
(* arComments is the issue's comment list in Jira; a comment is            *)
(* "architect" when its body carries MARKER and "other" when it does not.  *)
(* The invocations are sequential: each action is one whole invocation.    *)
(***************************************************************************)

MaxRuns == 2

\* JiraAPI.get_comments(issue_key): the stored comments, or [] when the request
\* fails or answers with another status than 200
get_comments(stored, outcome) == IF outcome = "ok" THEN stored ELSE <<>>

ArEnvs ==
    [fields : {"dict", "None"}, words : {{}, {"field"}}, get_comments : {"ok", "fails"},
     reply : { r \in OlReplies : r.kind # "text" \/ (r.text.outer_ws = 0 /\ r.text.inner_ws = 4) },
     comment : {"ok", "error"}]

\* process_ticket(issue_key, issue_data, config) of the architect: the returned
\* dict with the calls made and the LLM's answer, and the issue's comments
\* afterwards
architect_process_ticket(stored, env) ==
    LET Res(success, status, ai, calls) ==
            [kind |-> "result", success |-> success, status |-> status, ai |-> ai, calls |-> calls]
        existing_comments == get_comments(stored, env.get_comments)
        ai_response == call_ollama(env.words, env.reply)
        all_calls   == <<"get_comments", "search_issues", "chat", "add_comment">>
    IN  IF env.fields = "None"
        THEN \* fields.get raises AttributeError: the except branch
             [result |-> Res(FALSE, "exception", NoResult, <<>>), comments |-> stored]
        ELSE IF \E i \in 1..Len(existing_comments) : existing_comments[i] = "architect"
        THEN [result |-> Res(TRUE, "skipped", NoResult, <<"get_comments">>), comments |-> stored]
        ELSE IF env.comment = "error"
        THEN [result |-> Res(FALSE, "comment_failed", ai_response, all_calls), comments |-> stored]
        ELSE [result |-> Res(TRUE, "posted", ai_response, all_calls),
              comments |-> Append(stored, "architect")]

ArInit ==
    /\ arComments \in {<<>>, <<"other">>}
    /\ arRuns = 0
    /\ arLast = NoResult
    \* the other components are not in use
    /\ brContexts = <<>> /\ brTarget = NoneId /\ brOut = NoResult
    /\ avPc = "idle" /\ avReq = NoResult /\ avLoc = NoResult /\ avCalls = <<>> /\ avResult = NoResult
    /\ whSecret = NoResult /\ whReq = NoResult /\ whResp = NoResult
    /\ hyEngine = NoResult /\ hyPayload = NoResult /\ hyOut = NoResult
    /\ stRule = NoResult /\ stJira = NoResult /\ stOut = NoResult
    /\ wvRule = NoResult /\ wvJira = NoResult /\ wvOut = NoResult
    /\ olPrompt = NoResult /\ olReply = NoResult /\ olOut = NoResult
    /\ l1Ticket = NoResult /\ l1Out = NoResult
    /\ hhPayload = NoResult /\ hhDefault = NoResult /\ hhOut = NoResult
    /\ srRule = NoResult /\ srPayload = NoResult /\ srOut = NoResult
    /\ ruRule = NoResult /\ ruJira = NoResult /\ ruOut = NoResult
    /\ mlPc = "idle" /\ mlLoc = NoResult
    /\ alLabels = <<>> /\ alCalls = <<>> /\ alOut = NoResult
    /\ caPc = NoResult /\ caSeen = NoResult /\ caComments = <<>>

ArProcess ==
    /\ arRuns < MaxRuns
    /\ \E env \in ArEnvs :
          LET out == architect_process_ticket(arComments, env)
          IN  /\ arLast' = out.result
              /\ arComments' = out.comments
    /\ arRuns' = arRuns + 1
    /\ UNCHANGED <<brVars, avVars, whVars, hyVars, stVars, wvVars, olVars, l1Vars, hhVars,
                 srVars, ruVars, mlVars, alVars, caVars>>

SpecArchitect == ArInit /\ [][ArProcess]_vars

ArchitectComments == SelectSeq(arComments, LAMBDA c : c = "architect")

\* C16: once an architect invocation has posted its comment carrying the
\* marker on the issue, every later invocation for that issue returns status
\* skipped, makes no LLM call and posts no comment, so at most one architect
\* comment exists on the issue after any sequence of invocations.
C16_ArchitectIdempotent ==
    /\ Len(ArchitectComments) <= 1
    /\ (arLast # NoResult /\ Len(ArchitectComments) >= 1 /\ arLast.status # "posted") =>
          (arLast.status = "skipped" /\ \A i \in 1..Len(arLast.calls) : arLast.calls[i] # "chat")

\* C17: for each of the three agents, every invocation that ends in a failure
\* result (success false) has attempted to post at least one comment on the
\* issue before returning.
C17_FailureAlwaysComments ==
    /\ (l1Out # NoResult /\ ~l1Out.success) =>
          \E i \in 1..Len(l1Out.calls) : l1Out.calls[i] = "add_comment"
    /\ (avPc = "done" /\ avResult.success = "false") =>
          CountCalls(avCalls, {"add_comment"}) >= 1
    /\ (arLast # NoResult /\ ~arLast.success) =>
          \E i \in 1..Len(arLast.calls) : arLast.calls[i] = "add_comment"

(***************************************************************************)
(* app/webhook_handlers.py: handle_hygiene                                 *)
(*                                                                         *)
(* The payload's projects field is absent, None, a list of entries or a    *)
(* string; a string is given by its segments between the commas.  An       *)
(* entry is a project key, a key with blanks around it, a blank or empty.  *)
(***************************************************************************)

MaxProjects == 2

ProjectEntries == {"SBX", " OPS ", " ", ""}

\* str.strip() on the entries
Strip(e) == CASE e = " OPS " -> "OPS" [] e = " " -> "" [] OTHER -> e

RawProjects ==
    [kind : {"absent", "None"}, items : {<<>>}]
    \cup [kind : {"list"}, items : UNION { [1..n -> ProjectEntries] : n \in 0..MaxProjects }]
    \cup [kind : {"str"}, items : UNION { [1..n -> ProjectEntries] : n \in 1..MaxProjects }]

\* lines 37-43: the project list handed to the engine
NormalizeProjects(raw, default) ==
    LET stripped == [i \in 1..Len(raw.items) |-> Strip(raw.items[i])]
        kept     == SelectSeq(stripped, LAMBDA x : x # "")
    IN  IF raw.kind = "list" /\ raw.items # <<>> THEN kept
        ELSE IF raw.kind = "str" /\ (Len(raw.items) >= 2 \/ Strip(raw.items[1]) # "") THEN kept
        ELSE default

\* handle_hygiene(payload, cfg): the engine that is built and the report of
\* engine.process({"eventType": evt})
handle_hygiene(payload, default, behaviours) ==
    LET evt      == IF payload.eventType = "absent" THEN "scheduled_sweep" ELSE payload.eventType
        projects == NormalizeProjects(payload.projects, default)
        flags    == [enable_stale |-> TRUE, enable_missing_fields |-> TRUE,
                     enable_workflow_validator |-> TRUE, enable_duplicate_check |-> TRUE]
    IN  [kind |-> "result", evt |-> evt, projects |-> projects, add_comment |-> TRUE,
         report |-> HygieneProcess([flags |-> flags, behaviours |-> behaviours], evt)]

HhInit ==
    /\ hhPayload \in [eventType : {"absent", "scheduled_sweep", "issue_created"}, projects : RawProjects]
    /\ hhDefault \in {<<>>, <<"SBX">>, <<"SBX", "OPS">>}
    /\ hhOut = NoResult
    \* the other components are not in use
    /\ brContexts = <<>> /\ brTarget = NoneId /\ brOut = NoResult
    /\ avPc = "idle" /\ avReq = NoResult /\ avLoc = NoResult /\ avCalls = <<>> /\ avResult = NoResult
    /\ whSecret = NoResult /\ whReq = NoResult /\ whResp = NoResult
    /\ hyEngine = NoResult /\ hyPayload = NoResult /\ hyOut = NoResult
    /\ stRule = NoResult /\ stJira = NoResult /\ stOut = NoResult
    /\ wvRule = NoResult /\ wvJira = NoResult /\ wvOut = NoResult
    /\ olPrompt = NoResult /\ olReply = NoResult /\ olOut = NoResult
    /\ l1Ticket = NoResult /\ l1Out = NoResult
    /\ arComments = <<>> /\ arRuns = 0 /\ arLast = NoResult
    /\ srRule = NoResult /\ srPayload = NoResult /\ srOut = NoResult
    /\ ruRule = NoResult /\ ruJira = NoResult /\ ruOut = NoResult
    /\ mlPc = "idle" /\ mlLoc = NoResult
    /\ alLabels = <<>> /\ alCalls = <<>> /\ alOut = NoResult
    /\ caPc = NoResult /\ caSeen = NoResult /\ caComments = <<>>

HhHandle ==
    /\ hhOut = NoResult
    /\ \E behaviours \in [RuleNames -> ExecuteBehaviours] :
          hhOut' = handle_hygiene(hhPayload, hhDefault, behaviours)
    /\ UNCHANGED <<hhPayload, hhDefault>>
    /\ UNCHANGED <<brVars, avVars, whVars, hyVars, stVars, wvVars, olVars, l1Vars, arVars,
                 srVars, ruVars, mlVars, alVars, caVars>>

SpecHandleHygiene == HhInit /\ [][HhHandle]_vars

\* the trimmed, non-blank project keys the payload names
HhPayloadKeys ==
    LET items == hhPayload.projects.items
        key(e) == IF e = " OPS " THEN "OPS" ELSE e
    IN  [i \in 1..Len(SelectSeq(items, LAMBDA e : e \notin {"", " "})) |->
            key(SelectSeq(items, LAMBDA e : e \notin {"", " "})[i])]

\* C19: when the configured default list is non-empty, handle_hygiene runs the
\* engine with a non-empty project list: the trimmed, non-blank project keys of
\* the payload's projects field (a list or a comma-separated string) when there
\* is at least one, and the configured default list in every other case (field
\* absent, empty, or holding only blank entries or separators).
C19_ProjectsNeverEmpty ==
    (hhOut # NoResult /\ hhDefault # <<>>) =>
        /\ hhOut.projects # <<>>
        /\ hhOut.projects = IF HhPayloadKeys # <<>> THEN HhPayloadKeys ELSE hhDefault

RuleClasses == RuleNames \cup {"DuplicateCheckRule"}

\* the data argument, named by its eventType as in HyPayloads
SrPayloads ==
    HyPayloads \cup {"issue_updated", "ISSUE_CREATED", "Manual_Report", "Deployment",
                     "issue_deleted", "comment_created", ""}

\* rule.should_run(data) of a rule object: the enabled flag is tested first
RuleShouldRun(rule, data) ==
    IF ~rule.enabled THEN "False" ELSE should_run(rule.class, data)

SrInit ==
    /\ srRule \in [class : RuleClasses, enabled : BOOLEAN]
    /\ srPayload \in SrPayloads
    /\ srOut = NoResult
    \* the other components are not in use
    /\ brContexts = <<>> /\ brTarget = NoneId /\ brOut = NoResult
    /\ avPc = "idle" /\ avReq = NoResult /\ avLoc = NoResult /\ avCalls = <<>> /\ avResult = NoResult
    /\ whSecret = NoResult /\ whReq = NoResult /\ whResp = NoResult
    /\ hyEngine = NoResult /\ hyPayload = "None" /\ hyOut = NoResult
    /\ stRule = NoResult /\ stJira = NoResult /\ stOut = NoResult
    /\ wvRule = NoResult /\ wvJira = NoResult /\ wvOut = NoResult
    /\ olPrompt = NoResult /\ olReply = NoResult /\ olOut = NoResult
    /\ l1Ticket = NoResult /\ l1Out = NoResult
    /\ arComments = <<>> /\ arRuns = 0 /\ arLast = NoResult
    /\ hhPayload = NoResult /\ hhDefault = NoResult /\ hhOut = NoResult
    /\ ruRule = NoResult /\ ruJira = NoResult /\ ruOut = NoResult
    /\ mlPc = "idle" /\ mlLoc = NoResult
    /\ alLabels = <<>> /\ alCalls = <<>> /\ alOut = NoResult
    /\ caPc = NoResult /\ caSeen = NoResult /\ caComments = <<>>

SrCall ==
    /\ srOut = NoResult
    /\ srOut' = [kind |-> "returned", value |-> RuleShouldRun(srRule, srPayload)]
    /\ UNCHANGED <<srRule, srPayload>>
    /\ UNCHANGED <<brVars, avVars, whVars, hyVars, stVars, wvVars, olVars, l1Vars, arVars, hhVars,
                   ruVars, mlVars, alVars, caVars>>

SpecShouldRun == SrInit /\ [][SrCall]_vars

\* the data arguments a rule class is documented to run on, in every spelling that occurs
SrDocumented(class) ==
    LET created == {"issue_created", "ISSUE_CREATED"}
        updated == {"issue_updated", "Issue_Updated"}
        sweep   == {"scheduled_sweep", "SCHEDULED_SWEEP"}
        manual  == {"manual_report", "Manual_Report"}
    IN  CASE class = "StaleTicketRule" -> updated \cup sweep
          [] class \in {"MissingFieldsRule", "WorkflowValidatorRule"} -> created \cup updated \cup sweep
          [] class = "DuplicateCheckRule" -> created \cup updated
          [] class = "DuplicateCustomFieldsRule" -> sweep \cup manual

\* C21: a disabled rule's should_run is false for every data argument; an enabled rule's
\* should_run, for an event type that is a string or absent, is true exactly on the event
\* types documented for its class, in any letter case, and false on every other one
C21_ShouldRunGates ==
    srOut # NoResult =>
        /\ ~srRule.enabled => srOut.value = "False"
        /\ (srRule.enabled /\ EventTypeOf(srPayload) # "null") =>
              srOut.value = (IF srPayload \in SrDocumented(srRule.class) THEN "True" ELSE "False")

C21_Witness ==
    /\ srOut # NoResult
    /\ srRule = [class |-> "StaleTicketRule", enabled |-> TRUE]
    /\ srPayload = "Issue_Updated"
    /\ srOut.value = "True"

\* ---- execute of the three search rules, with the JQL they build ----

MaxRuIssues == 2

\* the order sorted() gives the status and label names that occur
NameOrder == <<"Blocked", "On Hold", "stale">>

\* sorted(names) for a set of names
SortedNames(S) == SelectSeq(NameOrder, LAMBDA x : x \in S)

\* one clause of a JQL string: its text, the names it lists and its number
Clause(text, names, n) == [clause |-> text, names |-> names, n |-> n]

\* ",".join(p.strip() for p in self.projects if p and p.strip())
ProjectCsv(projects) ==
    LET stripped == [i \in 1..Len(projects) |-> Strip(projects[i])]
    IN  SelectSeq(stripped, LAMBDA q : q # "")

\* _project_clause(): "" for no projects, else "project in (csv) AND "
_project_clause(rule) ==
    IF rule.projects = <<>> THEN <<>>
    ELSE << Clause("project in", ProjectCsv(rule.projects), 0) >>

\* _exclude_status_clause()
_exclude_status_clause(rule) ==
    IF rule.exclude_statuses = {} THEN <<>>
    ELSE << Clause("status not in", SortedNames(rule.exclude_statuses), 0) >>

\* _exclude_labels_clause()
_exclude_labels_clause(rule) ==
    IF rule.exclude_labels = {} THEN <<>>
    ELSE << Clause("labels not in", SortedNames(rule.exclude_labels), 0) >>

\* StaleTicketRule._build_jql() with the updated clause not capped by max_days
StaleBuildJql_Uncapped(rule) ==
    _project_clause(rule)
    \o (IF rule.days <= 0 THEN <<>> ELSE << Clause("updated <", <<>>, rule.days) >>)
    \o << Clause("statusCategory != Done", <<>>, 0) >>
    \o _exclude_status_clause(rule) \o _exclude_labels_clause(rule)

\* StaleTicketRule._build_jql()
StaleBuildJql(rule) ==
    _project_clause(rule)
    \o (IF rule.days <= 0 THEN <<>>
        ELSE << Clause("updated <", <<>>, Min2(rule.days, rule.max_days)) >>)
    \o << Clause("statusCategory != Done", <<>>, 0) >>
    \o _exclude_status_clause(rule) \o _exclude_labels_clause(rule)

\* MissingFieldsRule._status_clause()
MissingStatusClause(rule) ==
    (IF rule.statuses = <<>> THEN <<>> ELSE << Clause("status in", rule.statuses, 0) >>)
    \o _exclude_status_clause(rule)

\* f'"{name}" is EMPTY' if " " in name else f"{name} is EMPTY"
EmptyPart(name) == IF name = "Story Points" THEN "\"Story Points\"" ELSE name

\* MissingFieldsRule._missing_fields_clause()
_missing_fields_clause(rule) ==
    << Clause("is EMPTY", [i \in 1..Len(rule.required) |-> EmptyPart(rule.required[i])], 0) >>

\* MissingFieldsRule._build_jql()
MissingBuildJql(rule) ==
    _project_clause(rule) \o << Clause("statusCategory != Done", <<>>, 0) >>
    \o MissingStatusClause(rule) \o _missing_fields_clause(rule)

\* WorkflowValidatorRule._build_jql()
WorkflowBuildJql(rule) ==
    _project_clause(rule) \o << Clause("statusCategory != Done", <<>>, 0) >>
    \o << Clause("status in", rule.statuses, 0) >>

_build_jql(rule) ==
    CASE rule.class = "StaleTicketRule" -> StaleBuildJql(rule)
      [] rule.class = "MissingFieldsRule" -> MissingBuildJql(rule)
      [] rule.class = "WorkflowValidatorRule" -> WorkflowBuildJql(rule)

\* the rule as the execute operators of each class read it
RuleView(rule, jira) ==
    [enabled |-> rule.enabled, has_jira |-> jira.kind # "None",
     add_comment |-> rule.add_comment, add_label |-> rule.add_label,
     max_results |-> rule.max_results, batch_size |-> rule.batch_size,
     require_assignee |-> rule.require_assignee, require_fields |-> rule.require_fields]

\* MissingFieldsRule.execute(data): every issue the search returned is flagged
MissingExecute(rule, jira) ==
    IF ~rule.enabled THEN StResult("skipped", <<>>, 0, 0, <<>>)
    ELSE IF ~rule.has_jira THEN StResult("dry_run", <<>>, 0, 0, <<>>)
    ELSE
        LET found == WvSearchAll(rule, jira)
            acts  == _maybe_write_actions(rule, jira, found.results)
        IN  IF found.raised THEN StResult("error", <<>>, 0, 0, found.calls)
            ELSE StResult("ok", found.results, acts.comments, acts.labels, found.calls \o acts.calls)

\* the dict execute returns, from the outcome r of the class's execute and the JQL
RuleDict(rule, r, jql) ==
    IF r.status = "skipped" THEN [rule |-> rule.class, status |-> "skipped", reason |-> "disabled"]
    ELSE IF r.status = "error" THEN [rule |-> rule.class, status |-> "error", jql |-> jql, error |-> "str(e)"]
    ELSE [rule |-> rule.class, status |-> r.status, jql |-> jql,
          issues_flagged |-> r.issues_flagged, issue_keys |-> r.issue_keys, actions |-> r.actions]

\* rule.execute(data) for the three classes: the dict, the calls made on the
\* Jira client, and the rule object afterwards (execute assigns no attribute)
RuleExecute(rule, jira) ==
    LET view == RuleView(rule, jira)
        r == CASE rule.class = "StaleTicketRule" -> StaleExecute(view, jira)
               [] rule.class = "MissingFieldsRule" -> MissingExecute(view, jira)
               [] rule.class = "WorkflowValidatorRule" -> WorkflowExecute(view, jira)
    IN  [kind |-> "returned", result |-> RuleDict(rule, r, _build_jql(rule)),
         calls |-> r.calls, self |-> rule]

RuProjects == {<<>>, <<"SBX">>, <<" OPS ", " ">>}

RuCommon ==
    [enabled : BOOLEAN, projects : RuProjects, add_comment : BOOLEAN,
     add_label : {"None", "hygiene"}, max_results : {2}, batch_size : {1, 100}]

\* the rule objects after construction: days is never 0 and max_days at least 1
\* (lines 58, 68), required and statuses are non-empty where the constructor insists
RuRules ==
    { [class |-> "StaleTicketRule", enabled |-> c.enabled, projects |-> c.projects,
       add_comment |-> c.add_comment, add_label |-> c.add_label,
       max_results |-> c.max_results, batch_size |-> c.batch_size,
       days |-> x.days, max_days |-> x.max_days,
       exclude_statuses |-> x.exclude_statuses, exclude_labels |-> x.exclude_labels,
       statuses |-> <<>>, required |-> <<>>, require_assignee |-> FALSE, require_fields |-> <<>>] :
         c \in RuCommon,
         x \in [days : {-5, 7, 400}, max_days : {1, 365},
                exclude_statuses : {{}, {"On Hold", "Blocked"}}, exclude_labels : {{}, {"stale"}}] }
    \cup
    { [class |-> "MissingFieldsRule", enabled |-> c.enabled, projects |-> c.projects,
       add_comment |-> c.add_comment, add_label |-> c.add_label,
       max_results |-> c.max_results, batch_size |-> c.batch_size,
       days |-> 0, max_days |-> 1,
       exclude_statuses |-> x.exclude_statuses, exclude_labels |-> {},
       statuses |-> x.statuses, required |-> x.required,
       require_assignee |-> FALSE, require_fields |-> <<>>] :
         c \in RuCommon,
         x \in [exclude_statuses : {{}, {"On Hold"}},
                statuses : {<<>>, <<"In Progress", "Ready for Dev">>},
                required : {<<"SP">>, <<"Story Points", "labels">>}] }
    \cup
    { [class |-> "WorkflowValidatorRule", enabled |-> c.enabled, projects |-> c.projects,
       add_comment |-> c.add_comment, add_label |-> c.add_label,
       max_results |-> c.max_results, batch_size |-> c.batch_size,
       days |-> 0, max_days |-> 1, exclude_statuses |-> {}, exclude_labels |-> {},
       statuses |-> x.statuses, required |-> <<>>,
       require_assignee |-> x.require_assignee, require_fields |-> x.require_fields] :
         c \in RuCommon,
         x \in [statuses : {<<"In Review">>, <<"In Progress", "Ready for Dev">>},
                require_assignee : BOOLEAN, require_fields : {<<>>, <<"SP">>}] }

\* self.jira: None, or a client in front of a backend with n issues
RuJiras ==
    {[kind |-> "None"]}
    \cup UNION { [kind : {"client"}, n : {n},
                  search_fault : {NoSearchFault, [at |-> 1, how |-> "error"], [at |-> 2, how |-> "error"]},
                  write_fault : {NoFault, [op |-> "comment", key |-> 1, how |-> "error"],
                                 [op |-> "label", key |-> 1, how |-> "raises"]},
                  fields : {[k \in 1..n |-> [assignee |-> "None", SP |-> "absent", labels |-> "list"]]}] :
                 n \in 0..MaxRuIssues }

RuInit ==
    /\ ruRule \in RuRules
    /\ ruJira \in RuJiras
    /\ ruOut = NoResult
    \* the other components are not in use
    /\ brContexts = <<>> /\ brTarget = NoneId /\ brOut = NoResult
    /\ avPc = "idle" /\ avReq = NoResult /\ avLoc = NoResult /\ avCalls = <<>> /\ avResult = NoResult
    /\ whSecret = NoResult /\ whReq = NoResult /\ whResp = NoResult
    /\ hyEngine = NoResult /\ hyPayload = NoResult /\ hyOut = NoResult
    /\ stRule = NoResult /\ stJira = NoResult /\ stOut = NoResult
    /\ wvRule = NoResult /\ wvJira = NoResult /\ wvOut = NoResult
    /\ olPrompt = NoResult /\ olReply = NoResult /\ olOut = NoResult
    /\ l1Ticket = NoResult /\ l1Out = NoResult
    /\ arComments = <<>> /\ arRuns = 0 /\ arLast = NoResult
    /\ hhPayload = NoResult /\ hhDefault = NoResult /\ hhOut = NoResult
    /\ srRule = NoResult /\ srPayload = NoResult /\ srOut = NoResult
    /\ mlPc = "idle" /\ mlLoc = NoResult
    /\ alLabels = <<>> /\ alCalls = <<>> /\ alOut = NoResult
    /\ caPc = NoResult /\ caSeen = NoResult /\ caComments = <<>>

RuExecute ==
    /\ ruOut = NoResult
    /\ ruOut' = RuleExecute(ruRule, ruJira)
    /\ UNCHANGED <<ruRule, ruJira>>
    /\ UNCHANGED <<brVars, avVars, whVars, hyVars, stVars, wvVars, olVars, l1Vars, arVars, hhVars,
                   srVars, mlVars, alVars, caVars>>

SpecRules == RuInit /\ [][RuExecute]_vars

\* the clauses of a JQL with the given text
ClausesOf(jql, text) == SelectSeq(jql, LAMBDA c : c.clause = text)

\* the project names of the configuration without surrounding blanks and blank entries
DocumentedProjects(projects) ==
    CASE projects = <<>> -> <<>>
      [] projects = <<"SBX">> -> <<"SBX">>
      [] projects = <<" OPS ", " ">> -> <<"OPS">>

\* the JQL of a dry run is the query of the rule's configuration: restricted to the
\* configured projects, to issues that are not done, and for the stale rule to
\* issues not updated for min(days, max_days) days when days is positive
DocumentedJql(rule, jql) ==
    /\ Len(ClausesOf(jql, "statusCategory != Done")) = 1
    /\ IF rule.projects = <<>> THEN ClausesOf(jql, "project in") = <<>>
       ELSE /\ jql[1].clause = "project in"
            /\ jql[1].names = DocumentedProjects(rule.projects)
            /\ Len(ClausesOf(jql, "project in")) = 1
    /\ rule.class = "StaleTicketRule" =>
          ClausesOf(jql, "updated <") =
             IF rule.days <= 0 THEN <<>>
             ELSE << Clause("updated <", <<>>, IF rule.days > rule.max_days THEN rule.max_days ELSE rule.days) >>
    /\ rule.class = "MissingFieldsRule" =>
          /\ Len(ClausesOf(jql, "is EMPTY")) = 1
          /\ Len(ClausesOf(jql, "is EMPTY")[1].names) = Len(rule.required)
    /\ rule.class \in {"MissingFieldsRule", "WorkflowValidatorRule"} /\ rule.statuses # <<>> =>
          ClausesOf(jql, "status in") = << Clause("status in", rule.statuses, 0) >>

\* C22: an enabled rule without a Jira client returns status dry_run with the JQL of
\* its configuration, issues_flagged 0, no issue keys and actions 0 / 0, makes no call
\* on a Jira client, and the rule object is as it was before
C22_DryRun ==
    (ruOut # NoResult /\ ruRule.enabled /\ ruJira.kind = "None") =>
        /\ ruOut.result.status = "dry_run"
        /\ ruOut.result.rule = ruRule.class
        /\ DocumentedJql(ruRule, ruOut.result.jql)
        /\ ruOut.result.issues_flagged = 0
        /\ ruOut.result.issue_keys = <<>>
        /\ ruOut.result.actions = [comments |-> 0, labels |-> 0]
        /\ ruOut.calls = <<>>
        /\ ruOut.self = ruRule

C22_Witness ==
    /\ ruOut # NoResult /\ ruRule.enabled /\ ruJira.kind = "None"
    /\ ruRule.class = "StaleTicketRule" /\ ruRule.days = 400 /\ ruRule.max_days = 365
    /\ ruRule.projects = <<" OPS ", " ">>
    /\ ruOut.result.status = "dry_run"

\* ---- unknown project scope in the blast-radius analysis ----

\* a context with neither a projectIds nor a projects list and no boolean global flag
UnknownScope(ctx) == ~ctx.known /\ ctx.flag = "absent"

\* C23: a context of unknown project scope is never taken as global: when every context
\* of the field has unknown scope the analysis returns CRITICAL, also for a single
\* context, and no result reports a context of unknown scope as the global selection
C23_UnknownScopeFailsClosed ==
    (brOut # NoResult /\ brOut.kind = "dict") =>
        /\ (brContexts # <<>> /\ \A i \in 1..Len(brContexts) : UnknownScope(brContexts[i]))
              => brOut.risk_level = "CRITICAL"
        /\ \A i \in 1..Len(brContexts) :
              (UnknownScope(brContexts[i]) /\ brOut.selected_context_id = Str(brContexts[i].id))
                 => ~brOut.is_global

\* ---- the project-mapping pagination loop of the admin validator, call by call ----

MaxStartAt == 6

\* the pages a server can answer with, among them a page that reports
\* maxResults 0 and a total, without isLast
MlPages == MappingPages \cup {Page(<<Pair(2, 1)>>, "absent", 5, 0)}

\* the handler's locals at line 174, before the first request
MlLocals ==
    [AvLocals0 EXCEPT !.field_contexts =
        << [id |-> 2, known |-> FALSE, pids |-> <<>>, flag |-> "absent"],
           [id |-> 3, known |-> FALSE, pids |-> <<>>, flag |-> "absent"] >>]

MlInit ==
    /\ mlPc = "send"
    /\ mlLoc = MlLocals
    \* the other components are not in use
    /\ brContexts = <<>> /\ brTarget = NoneId /\ brOut = NoResult
    /\ avPc = "idle" /\ avReq = NoResult /\ avLoc = NoResult /\ avCalls = <<>> /\ avResult = NoResult
    /\ whSecret = NoResult /\ whReq = NoResult /\ whResp = NoResult
    /\ hyEngine = NoResult /\ hyPayload = NoResult /\ hyOut = NoResult
    /\ stRule = NoResult /\ stJira = NoResult /\ stOut = NoResult
    /\ wvRule = NoResult /\ wvJira = NoResult /\ wvOut = NoResult
    /\ olPrompt = NoResult /\ olReply = NoResult /\ olOut = NoResult
    /\ l1Ticket = NoResult /\ l1Out = NoResult
    /\ arComments = <<>> /\ arRuns = 0 /\ arLast = NoResult
    /\ hhPayload = NoResult /\ hhDefault = NoResult /\ hhOut = NoResult
    /\ srRule = NoResult /\ srPayload = NoResult /\ srOut = NoResult
    /\ ruRule = NoResult /\ ruJira = NoResult /\ ruOut = NoResult
    /\ alLabels = <<>> /\ alCalls = <<>> /\ alOut = NoResult
    /\ caPc = NoResult /\ caSeen = NoResult /\ caComments = <<>>

\* line 178: the GET for the page at start_at is sent
MlSend ==
    /\ mlPc = "send"
    /\ mlPc' = "wait"
    /\ UNCHANGED mlLoc
    /\ UNCHANGED <<brVars, avVars, whVars, hyVars, stVars, wvVars, olVars, l1Vars, arVars, hhVars,
                   srVars, ruVars, alVars, caVars>>

\* lines 182-220: the response arrives and the iteration runs to its break or
\* to the top of the loop
MlReceive ==
    /\ mlPc = "wait"
    /\ \E page \in MlPages :
          LET step == MappingStep(mlLoc, <<>>, page)
          IN  /\ step.loc.start_at <= MaxStartAt
              /\ mlLoc' = [step.loc EXCEPT !.pages = 0]
              /\ mlPc' = IF step.pc = "GET_projectmapping" THEN "send" ELSE "done"
    /\ UNCHANGED <<brVars, avVars, whVars, hyVars, stVars, wvVars, olVars, l1Vars, arVars, hhVars,
                   srVars, ruVars, alVars, caVars>>

MlNext == MlSend \/ MlReceive

SpecMappingLoop == MlInit /\ [][MlNext]_vars

\* every request is sent, and every request is answered in finite time
SpecMappingLoopFair == SpecMappingLoop /\ WF_vars(MlSend) /\ WF_vars(MlReceive)

\* C24: when every call returns in finite time the project-mapping pagination loop
\* ends after finitely many calls, whatever the server answers
C24_MappingLoopTerminates == <>(mlPc = "done")

\* ---- JiraAPI.add_label (jira_api.py) ----

MaxAddCalls == 2
MaxLabels == 2

LabelNames == {"stale", "hygiene", "triaged"}

\* the label lists an issue can have: no label twice
LabelLists ==
    UNION { { l \in [1..n -> LabelNames] : \A i, j \in 1..n : i # j => l[i] # l[j] } : n \in 0..MaxLabels }

\* what the GET of the issue and the PUT of the labels do: answer 200/204,
\* answer another status, or raise (timeout, connection error)
HttpOutcomes == {"ok", "http_error", "raises"}

AlReturn(result, requests, labels) == [result |-> result, requests |-> requests, labels |-> labels]

\* add_label that appends the label without looking for it in the current labels
add_label_AlwaysAppends(stored, label, get, put) ==
    IF get # "ok" THEN AlReturn([kind |-> "error"], << <<"GET">> >>, stored)
    ELSE
        LET current    == stored
            new_labels == Append(current, label)
            requests   == << <<"GET">>, <<"PUT", new_labels>> >>
        IN  IF put = "ok"
            THEN AlReturn([kind |-> "success", labels |-> new_labels], requests, new_labels)
            ELSE AlReturn([kind |-> "error"], requests, stored)

\* add_label(issue_key, label) against an issue whose labels are `stored`: the
\* returned dict, the requests sent, and the issue's labels afterwards
add_label(stored, label, get, put) ==
    IF get # "ok" THEN AlReturn([kind |-> "error"], << <<"GET">> >>, stored)
    ELSE
        LET current    == stored
            new_labels == Append(current, label)
            requests   == << <<"GET">>, <<"PUT", new_labels>> >>
        IN  IF label \in Range(current)
            THEN AlReturn([kind |-> "success", labels |-> current], << <<"GET">> >>, stored)
            ELSE IF put = "ok"
            THEN AlReturn([kind |-> "success", labels |-> new_labels], requests, new_labels)
            ELSE AlReturn([kind |-> "error"], requests, stored)

AlInit ==
    /\ alLabels \in LabelLists
    /\ alCalls = <<>>
    /\ alOut = NoResult
    \* the other components are not in use
    /\ brContexts = <<>> /\ brTarget = NoneId /\ brOut = NoResult
    /\ avPc = "idle" /\ avReq = NoResult /\ avLoc = NoResult /\ avCalls = <<>> /\ avResult = NoResult
    /\ whSecret = NoResult /\ whReq = NoResult /\ whResp = NoResult
    /\ hyEngine = NoResult /\ hyPayload = NoResult /\ hyOut = NoResult
    /\ stRule = NoResult /\ stJira = NoResult /\ stOut = NoResult
    /\ wvRule = NoResult /\ wvJira = NoResult /\ wvOut = NoResult
    /\ olPrompt = NoResult /\ olReply = NoResult /\ olOut = NoResult
    /\ l1Ticket = NoResult /\ l1Out = NoResult
    /\ arComments = <<>> /\ arRuns = 0 /\ arLast = NoResult
    /\ hhPayload = NoResult /\ hhDefault = NoResult /\ hhOut = NoResult
    /\ srRule = NoResult /\ srPayload = NoResult /\ srOut = NoResult
    /\ ruRule = NoResult /\ ruJira = NoResult /\ ruOut = NoResult
    /\ mlPc = "idle" /\ mlLoc = NoResult
    /\ caPc = NoResult /\ caSeen = NoResult /\ caComments = <<>>

\* one call of add_label, after the calls made before it
AlAddLabel ==
    /\ Len(alCalls) < MaxAddCalls
    /\ \E label \in LabelNames, get \in HttpOutcomes, put \in HttpOutcomes :
          LET r == add_label(alLabels, label, get, put)
          IN  /\ alOut' = r.result
              /\ alLabels' = r.labels
              /\ alCalls' = Append(alCalls, [label |-> label, get |-> get, before |-> alLabels,
                                             requests |-> r.requests, result |-> r.result,
                                             after |-> r.labels])
    /\ UNCHANGED <<brVars, avVars, whVars, hyVars, stVars, wvVars, olVars, l1Vars, arVars, hhVars,
                   srVars, ruVars, mlVars, caVars>>

SpecAddLabel == AlInit /\ [][AlAddLabel]_vars

\* the PUT requests among the requests of a call
PutsOf(call) == SelectSeq(call.requests, LAMBDA q : q[1] = "PUT")

\* the number of times a label occurs in a list
Occurrences(list, label) == Cardinality({i \in 1..Len(list) : list[i] = label})

\* C25: after a successful add_label the issue has its previous labels in their order
\* and the label exactly once; no PUT is sent when the label is already there or when
\* reading the issue fails, and then the error is returned; a second call for the same
\* label after a successful one sends no PUT and leaves the labels as they are
C25_AddLabelIsUnion ==
    /\ \A i \in 1..Len(alCalls) :
          LET c == alCalls[i]
          IN  /\ c.result.kind = "success" =>
                    /\ c.after = (IF c.label \in Range(c.before) THEN c.before
                                  ELSE c.before \o <<c.label>>)
                    /\ Occurrences(c.after, c.label) = 1
                    /\ c.result.labels = c.after
              /\ c.label \in Range(c.before) => PutsOf(c) = <<>>
              /\ c.get # "ok" => PutsOf(c) = <<>> /\ c.result.kind = "error" /\ c.after = c.before
    /\ \A i \in 1..(Len(alCalls) - 1) :
          (alCalls[i].result.kind = "success" /\ alCalls[i + 1].label = alCalls[i].label) =>
              /\ PutsOf(alCalls[i + 1]) = <<>>
              /\ alCalls[i + 1].after = alCalls[i].after
    /\ alCalls # <<>> => alLabels = alCalls[Len(alCalls)].after

C25_Witness ==
    /\ Len(alCalls) = 2
    /\ alCalls[1].label = "stale" /\ alCalls[2].label = "stale"
    /\ alCalls[1].before = <<"hygiene">>
    /\ PutsOf(alCalls[1]) # <<>> /\ alCalls[1].result.kind = "success"
    /\ alCalls[2].result.kind = "success"
    /\ alLabels = <<"hygiene", "stale">>

\* ---- the context that option writes go to ----

\* C26: a result with a non-global selected context and risk LOW, the only result after
\* which options are written, selects a context whose project mapping contains the
\* target project
C26_SelectedContextApplies ==
    (brOut # NoResult /\ brOut.kind = "dict" /\ ~brOut.is_global /\ brOut.risk_level = "LOW") =>
        \E i \in 1..Len(brContexts) :
            /\ brOut.selected_context_id = Str(brContexts[i].id)
            /\ Str(brTarget) \in Range(_ctx_project_ids(brContexts[i]))

\* ---- the result of the modify path ----

\* the option write the detected operation stands for
RequestedWrite(operation_type) ==
    CASE operation_type = "add" -> "POST_option"
      [] operation_type \in {"disable", "enable"} -> "PUT_option"
      [] operation_type = "remove" -> "DELETE_option"
      [] OTHER -> "none"

\* C27: the modify path returns status completed only if for every requested option
\* value the write of the detected operation (POST for add, PUT for disable and for
\* enable, DELETE for remove) was sent for that value
C27_CompletedMeansWritten ==
    (avPc = "done" /\ avResult.status = "completed") =>
        \A i \in 1..Len(avLoc.option_values) :
            \E k \in 1..Len(avCalls) :
                /\ avCalls[k].op = RequestedWrite(avLoc.operation_type)
                /\ avCalls[k].arg = avLoc.option_values[i]

\* ---- search errors and write counts of the rules ----

\* the calls of the given kinds among the calls an execute made
CallsOf(calls, kinds) == SelectSeq(calls, LAMBDA c : c[1] \in kinds)

\* a search request of this execute was answered with an error result
SearchErrorSeen ==
    /\ ruOut # NoResult
    /\ ruJira.kind = "client"
    /\ ruJira.search_fault.how = "error"
    /\ ruJira.search_fault.at > 0
    /\ Len(CallsOf(ruOut.calls, {"search"})) >= ruJira.search_fault.at

\* C28: in each of the three rules, when a search page request returns an error result
\* execute returns status error and sends no comment and no label write
C28_SearchErrorMeansError ==
    SearchErrorSeen =>
        /\ ruOut.result.status = "error"
        /\ CallsOf(ruOut.calls, {"comment", "label"}) = <<>>

\* the writes of one kind that the backend carried out during the execute
SucceededWrites(op) ==
    {i \in 1..Len(ruOut.calls) :
        ruOut.calls[i][1] = op /\ WriteOutcome(ruJira, op, ruOut.calls[i][2]) = "ok"}

\* C29: in a rule result, actions.comments and actions.labels are the numbers of comment
\* and label writes that succeeded in Jira; a write answered with an error result is
\* not counted
C29_CountsAreSucceededWrites ==
    (ruOut # NoResult /\ ruJira.kind = "client" /\ ruOut.result.status = "ok") =>
        /\ ruOut.result.actions.comments = Cardinality(SucceededWrites("comment"))
        /\ ruOut.result.actions.labels = Cardinality(SucceededWrites("label"))

\* ---- two jira-architect requests for the same issue, served concurrently ----

Requests == {1, 2}

\* the request has not read the comments yet
NotRead == [read |-> "no", existing |-> <<>>, ai |-> "none"]

\* line 24: any(MARKER in body for c in existing_comments)
HasMarker(comments) == \E i \in 1..Len(comments) : comments[i] = "architect"

CaInit ==
    /\ caPc = [p \in Requests |-> "get_comments"]
    /\ caSeen = [p \in Requests |-> NotRead]
    /\ caComments \in {<<>>, <<"other">>, <<"architect">>, <<"other", "architect">>}
    \* the other components are not in use
    /\ brContexts = <<>> /\ brTarget = NoneId /\ brOut = NoResult
    /\ avPc = "idle" /\ avReq = NoResult /\ avLoc = NoResult /\ avCalls = <<>> /\ avResult = NoResult
    /\ whSecret = NoResult /\ whReq = NoResult /\ whResp = NoResult
    /\ hyEngine = NoResult /\ hyPayload = NoResult /\ hyOut = NoResult
    /\ stRule = NoResult /\ stJira = NoResult /\ stOut = NoResult
    /\ wvRule = NoResult /\ wvJira = NoResult /\ wvOut = NoResult
    /\ olPrompt = NoResult /\ olReply = NoResult /\ olOut = NoResult
    /\ l1Ticket = NoResult /\ l1Out = NoResult
    /\ arComments = <<>> /\ arRuns = 0 /\ arLast = NoResult
    /\ hhPayload = NoResult /\ hhDefault = NoResult /\ hhOut = NoResult
    /\ srRule = NoResult /\ srPayload = NoResult /\ srOut = NoResult
    /\ ruRule = NoResult /\ ruJira = NoResult /\ ruOut = NoResult
    /\ mlPc = "idle" /\ mlLoc = NoResult
    /\ alLabels = <<>> /\ alCalls = <<>> /\ alOut = NoResult

\* lines 23-26: the comments are read; with the marker among them the request is skipped
CaGetComments(p) ==
    /\ caPc[p] = "get_comments"
    /\ \E outcome \in {"ok", "fails"} :
          LET existing_comments == get_comments(caComments, outcome)
          IN  /\ caSeen' = [caSeen EXCEPT ![p] = [read |-> outcome, existing |-> existing_comments,
                                                  ai |-> "none"]]
              /\ caPc' = [caPc EXCEPT ![p] = IF HasMarker(existing_comments) THEN "skipped" ELSE "chat"]
    /\ UNCHANGED caComments
    /\ UNCHANGED <<brVars, avVars, whVars, hyVars, stVars, wvVars, olVars, l1Vars, arVars, hhVars,
                   srVars, ruVars, mlVars, alVars>>

\* lines 28-55: the recent tickets are searched and the LLM is asked; an answer
\* and a fallback both become the text of the comment
CaChat(p) ==
    /\ caPc[p] = "chat"
    /\ \E ai \in {"answer", "fallback"} :
          caSeen' = [caSeen EXCEPT ![p].ai = ai]
    /\ caPc' = [caPc EXCEPT ![p] = "add_comment"]
    /\ UNCHANGED caComments
    /\ UNCHANGED <<brVars, avVars, whVars, hyVars, stVars, wvVars, olVars, l1Vars, arVars, hhVars,
                   srVars, ruVars, mlVars, alVars>>

\* lines 57-67: the comment with the marker is posted
CaAddComment(p) ==
    /\ caPc[p] = "add_comment"
    /\ \E outcome \in {"ok", "error"} :
          /\ caComments' = IF outcome = "ok" THEN Append(caComments, "architect") ELSE caComments
          /\ caPc' = [caPc EXCEPT ![p] = IF outcome = "ok" THEN "posted" ELSE "comment_failed"]
    /\ UNCHANGED caSeen
    /\ UNCHANGED <<brVars, avVars, whVars, hyVars, stVars, wvVars, olVars, l1Vars, arVars, hhVars,
                   srVars, ruVars, mlVars, alVars>>

CaNext == \E p \in Requests : CaGetComments(p) \/ CaChat(p) \/ CaAddComment(p)

SpecConcurrentArchitect == CaInit /\ [][CaNext]_vars

\* C30: two concurrent architect requests for one issue, each of which read the
\* issue's comments successfully, post at most one comment with the marker between them
C30_AtMostOneMarkerComment ==
    (\A p \in Requests : caSeen[p].read # "fails") =>
        Cardinality({p \in Requests : caPc[p] = "posted"}) <= 1

====
